---- MODULE Spec2Model ----
(***************************************************************************)
(* SpendSmart: the budget monitoring pass (checkBudgetsAndNotify), its     *)
(* notification dedup, and the request handlers that write the tables the  *)
(* pass reads (budgets, expenses, notification preferences,                *)
(* notifications).                                                         *)
(*                                                                         *)
(* Time is counted in hours.  Money amounts are integers; the percentage   *)
(* spent / amount * 100 is kept as an exact fraction together with the     *)
(* IEEE-754 special values a division by zero produces.                   *)
(***************************************************************************)
EXTENDS Integers, Sequences, FiniteSets, TLC

\* ---------------------------------------------------------------- bounds
MaxRequests == 2   \* API requests served in a behaviour
MaxTicks == 1      \* advances of the clock in a behaviour
MaxRuns == 2       \* monitoring passes started in a behaviour
MaxProbeSpent == 110   \* largest spending total of SpecTier

\* ------------------------------------------------------ program constants
DedupWindowHours == 24
DefaultThreshold == 80
MinThreshold == 1
MaxThreshold == 100
FreeBudgetLimit == 3
FreeExpenseLimit == 50
PeriodHours == 168

Users == {"u1", "u2"}
Passes == {"p1", "p2"}
Scheduled == {"p1"}
NoId == 0
NoCategory == "none"
Categories == {"food"}
BudgetAmounts == {100}
ExpenseAmounts == {90}
TickSteps == {24, 25}
BudgetTypes == {"BUDGET_WARNING", "BUDGET_EXCEEDED"}
ApiTypes == {"BUDGET_WARNING"}

VARIABLES
  now,            \* the server clock, in hours
  hasCategories,  \* users that own at least one category row
  subscription,   \* userId -> plan, for the users with a subscription row
  prefs,          \* userId -> notification preference row, where one exists
  budgets,        \* budget id -> budget row
  nextBudgetId,   \* ids are never reused
  expenses,       \* sequence of expense rows
  notifications,  \* sequence of notification rows, in creation order
  pass,           \* per running checkBudgetsAndNotify call: its locals
  runs,           \* monitoring passes started so far
  requests,       \* API requests served so far
  receipt,        \* the recognized text handed to an extractor, its result
  page,           \* the new-expense page: ReceiptUpload and ExpenseForm state
  hook,           \* useNotifications: its state, pending fetches and timers
  setup,          \* the setup calls in progress, and the tables they write
  inbox,          \* notification id -> owner and read mark of the row
  cron,           \* the cron route: its secret and its last request
  creating        \* the POST /api/budgets calls in progress

vars == <<now, hasCategories, subscription, prefs, budgets, nextBudgetId,
          expenses, notifications, pass, runs, requests, receipt, page, hook,
          setup, inbox, cron, creating>>

\* the state of the browser
client == <<page, hook>>

\* the state of the handlers that are followed call by call
aux == <<setup, inbox, cron, creating>>

db == <<hasCategories, subscription, prefs, budgets, nextBudgetId, expenses,
        notifications>>

\* ---------------------------------------------------------------- helpers
RECURSIVE SumSeq(_)
SumSeq(s) == IF s = <<>> THEN 0 ELSE Head(s) + SumSeq(Tail(s))

RECURSIVE SortedIds(_)
\* the ids of a set in increasing order
SortedIds(S) ==
  IF S = {} THEN <<>>
  ELSE LET m == CHOOSE x \in S : \A y \in S : x <= y
       IN <<m>> \o SortedIds(S \ {m})

\* object spread / prisma update: the fields of upd replace those of base
Merge(base, upd) ==
  [k \in DOMAIN base |-> IF k \in DOMAIN upd THEN upd[k] ELSE base[k]]

\* ------------------------------------------------- notification preferences
\* the row prisma creates when only userId is given (schema defaults)
DefaultPreference ==
  [budgetAlerts |-> TRUE, budgetThreshold |-> DefaultThreshold]

\* bodies accepted by preferencesSchema
PreferenceUpdates == { [budgetAlerts |-> FALSE] }

\* user.notificationPreference as included by findMany: <<>> when absent
PreferenceOf(u) == IF u \in DOMAIN prefs THEN <<prefs[u]>> ELSE <<>>

\* ------------------------------------------------------------- user setup
\* setupNewUser: creates whatever of categories, subscription and
\* notification preference is missing
setupNewUser(u) ==
  /\ hasCategories' = hasCategories \cup {u}
  /\ subscription' =
       IF u \in DOMAIN subscription THEN subscription
       ELSE [x \in DOMAIN subscription \cup {u} |->
               IF x = u THEN "FREE" ELSE subscription[x]]
  /\ prefs' =
       IF u \in DOMAIN prefs THEN prefs
       ELSE [x \in DOMAIN prefs \cup {u} |->
               IF x = u THEN DefaultPreference ELSE prefs[x]]

\* ensureUserSetup: runs setupNewUser when the user has no category or no
\* subscription
ensureUserSetup(u) ==
  IF u \notin hasCategories \/ u \notin DOMAIN subscription
  THEN setupNewUser(u)
  ELSE UNCHANGED <<hasCategories, subscription, prefs>>

\* ------------------------------------------------------------- percentage
\* (spent / amount) * 100 in floating point: a fraction num/den with den > 0,
\* or what a zero divisor yields
Percentage(spent, amount) ==
  IF amount = 0
  THEN [kind |-> IF spent = 0 THEN "NaN"
                 ELSE IF spent > 0 THEN "Infinity" ELSE "-Infinity",
        num |-> 0, den |-> 1]
  ELSE IF amount > 0
  THEN [kind |-> "finite", num |-> spent * 100, den |-> amount]
  ELSE [kind |-> "finite", num |-> (0 - spent) * 100, den |-> 0 - amount]

\* a variant of AtLeast that leaves the boundary out (percentage > k)
StrictlyAbove(p, k) ==
  CASE p.kind = "NaN" -> FALSE
    [] p.kind = "Infinity" -> TRUE
    [] p.kind = "-Infinity" -> FALSE
    [] OTHER -> p.num > k * p.den

\* percentage >= k
AtLeast(p, k) ==
  CASE p.kind = "NaN" -> FALSE
    [] p.kind = "Infinity" -> TRUE
    [] p.kind = "-Infinity" -> FALSE
    [] OTHER -> p.num >= k * p.den

\* percentage < k
Below(p, k) ==
  CASE p.kind = "NaN" -> FALSE
    [] p.kind = "Infinity" -> FALSE
    [] p.kind = "-Infinity" -> TRUE
    [] OTHER -> p.num < k * p.den

\* preferences.budgetThreshold || 80
Threshold(pref) ==
  IF pref.budgetThreshold = 0 THEN DefaultThreshold ELSE pref.budgetThreshold

\* the branch of the alert decision a percentage selects
Tier(percentage, threshold) ==
  IF AtLeast(percentage, 100) THEN "EXCEEDED"
  ELSE IF AtLeast(percentage, threshold) /\ Below(percentage, 100)
       THEN "WARNING"
       ELSE "NONE"

NotificationTypeOf(tier) ==
  IF tier = "EXCEEDED" THEN "BUDGET_EXCEEDED" ELSE "BUDGET_WARNING"

\* ------------------------------------------------------------ spending
\* calculateBudgetSpending: the sum of the owner's expenses dated inside
\* the budget window, of the budget's category when it has one
calculateBudgetSpending(budget) ==
  LET Counts(e) ==
        /\ e.userId = budget.userId
        /\ e.date >= budget.startDate
        /\ e.date <= budget.endDate
        /\ (budget.categoryId # NoCategory => e.categoryId = budget.categoryId)
      matching == SelectSeq(expenses, Counts)
  IN SumSeq([k \in 1..Len(matching) |-> matching[k].amount])

\* ---------------------------------------------------------------- dedup
\* a variant of RecentIn that does not look at the kind
RecentOfAnyKind(store, clock, budgetId, type) ==
  LET oneDayAgo == clock - DedupWindowHours
  IN \E k \in 1..Len(store) :
       /\ store[k].relatedId = budgetId
       /\ store[k].createdAt >= oneDayAgo

\* a variant of RecentIn whose window is empty (the day is not subtracted)
RecentSinceNow(store, clock, budgetId, type) ==
  LET oneDayAgo == clock
  IN \E k \in 1..Len(store) :
       /\ store[k].relatedId = budgetId
       /\ store[k].type =
            (IF type = "BUDGET_EXCEEDED" THEN "BUDGET_EXCEEDED"
             ELSE "BUDGET_WARNING")
       /\ store[k].createdAt >= oneDayAgo

\* a variant of RecentIn that leaves the boundary out (createdAt > oneDayAgo)
RecentStrictlyAfter(store, clock, budgetId, type) ==
  LET oneDayAgo == clock - DedupWindowHours
  IN \E k \in 1..Len(store) :
       /\ store[k].relatedId = budgetId
       /\ store[k].type =
            (IF type = "BUDGET_EXCEEDED" THEN "BUDGET_EXCEEDED"
             ELSE "BUDGET_WARNING")
       /\ store[k].createdAt > oneDayAgo

\* hasRecentNotification on a given store and clock
RecentIn(store, clock, budgetId, type) ==
  LET oneDayAgo == clock - DedupWindowHours
  IN \E k \in 1..Len(store) :
       /\ store[k].relatedId = budgetId
       /\ store[k].type =
            (IF type = "BUDGET_EXCEEDED" THEN "BUDGET_EXCEEDED"
             ELSE "BUDGET_WARNING")
       /\ store[k].createdAt >= oneDayAgo

hasRecentNotification(budgetId, type) ==
  RecentIn(notifications, now, budgetId, type)

\* const extractedData = {}: no field is set.  A field is <<>> when absent
\* and <<value>> when set.
NoData ==
  [amount |-> <<>>, date |-> <<>>, merchant |-> <<>>, paymentMethod |-> <<>>,
   description |-> <<>>]

\* no text has been handed to an extractor
NoReceipt ==
  [pc |-> "none", text |-> "", timezoneOffset |-> 0, by |-> "none",
   extractedData |-> NoData]

\* JavaScript's null
JsNull == "null"

\* the day the page is opened, as format(new Date(), 'yyyy-MM-dd') writes it
Today == "2026-11-02"

\* useForm's defaultValues for a new expense
defaultValues ==
  [amount |-> "", description |-> "", date |-> Today, categoryId |-> "",
   paymentMethod |-> "CASH", merchant |-> "", notes |-> "",
   receiptUrl |-> ""]

\* no request of the page has been answered
NoResponse == [status |-> 0, extractedData |-> NoData, imageUrl |-> ""]

\* the new-expense page as it is first rendered for a signed-in user
NoPage ==
  [user |-> "u1", pc |-> "idle", isProcessing |-> FALSE,
   imagePreview |-> FALSE, response |-> NoResponse, form |-> defaultValues,
   activeTab |-> "manual", receiptUrl |-> "", isSubmitting |-> FALSE]

\* useNotifications before its first effect has run.  fetches holds, for
\* each fetchNotifications call whose fetch is pending, the retryCount its
\* closure captured; timers holds the setTimeout callbacks not yet run, with
\* the retryCount captured by the closure that set them; scheduled is the
\* history of the delays of the retry timers set since the last fetch that
\* did not fail with a retryable error.
NoHook ==
  [notifications |-> <<>>, unreadCount |-> 0, isLoading |-> FALSE,
   error |-> JsNull, retryCount |-> 0, fetches |-> <<>>, timers |-> <<>>,
   scheduled |-> <<>>, calls |-> <<>>]

\* the names of defaultCategories
DefaultCategoryNames ==
  { "Food & Dining", "Transportation", "Shopping", "Bills & Utilities",
    "Entertainment", "Healthcare", "Education", "Personal Care", "Groceries",
    "EMI", "Investments", "Others" }

\* the setup calls that can be in progress at once
SetupCalls == {"s1", "s2"}

\* no setup call is in progress
IdleCall ==
  [pc |-> "idle", kind |-> "none", userId |-> "none", noCategories |-> FALSE,
   noSubscription |-> FALSE, found |-> FALSE, created |-> 0, status |-> 0]

\* the Category, Subscription and NotificationPreference tables as the number
\* of rows per unique key (userId and name, userId, userId), for the users
\* whose rows the createUser event wrote; served holds the users for whom a
\* setup call has ended
TablesOf(complete) ==
  [categories |-> [u \in Users |-> [name \in DefaultCategoryNames |->
                     IF u \in complete THEN 1 ELSE 0]],
   subscriptions |-> [u \in Users |-> IF u \in complete THEN 1 ELSE 0],
   preferences |-> [u \in Users |-> 0]]

NoSetup ==
  [calls |-> [c \in SetupCalls |-> IdleCall], tables |-> TablesOf({"u1"}),
   served |-> {}]

\* the Notification table as PATCH and DELETE of the notifications route see
\* it: no row is stored
NoInbox == <<>>

\* the cron route before its first request, with CRON_SECRET set; header
\* and ran tell of the last request
NoCron ==
  [secret |-> <<"s3cret">>, header |-> <<>>, status |-> 0, ran |-> FALSE]

\* POST /api/budgets followed call by call: the two calls that may overlap,
\* none of them in progress
PostCalls == {"b1", "b2"}

NoPosts == [c \in PostCalls |-> [pc |-> "idle"]]

\* ------------------------------------------------------------------ Init
\* Two users have signed in.  For u1 the createUser event created the
\* default categories and the FREE subscription; u1 has opened the settings
\* page, whose GET created the default notification preference, has created
\* one budget of 100 over all categories and has recorded one expense of 90
\* in its period.  For u2 the createUser event failed
\* (the error is caught and logged): no category, no subscription; u2 has
\* no notification preference, which nothing creates at sign-in.
IdlePass ==
  [pc |-> "idle", activeBudgets |-> <<>>, i |-> 0, spent |-> 0,
   alerts |-> <<>>, j |-> 0, evals |-> <<>>, error |-> <<>>, base |-> 0]

Init ==
  /\ now = 0
  /\ hasCategories = {"u1"}
  /\ subscription = [u \in {"u1"} |-> "FREE"]
  /\ prefs = [u \in {"u1"} |-> DefaultPreference]
  /\ budgets = [b \in {1} |->
       [userId |-> "u1", categoryId |-> NoCategory, amount |-> 100,
        isActive |-> TRUE, startDate |-> 0, endDate |-> PeriodHours - 1]]
  /\ nextBudgetId = 2
  /\ expenses = <<[userId |-> "u1", categoryId |-> NoCategory,
                  amount |-> 90, date |-> 0]>>
  /\ notifications = <<>>
  /\ pass = [p \in Passes |-> IdlePass]
  /\ runs = 0
  /\ requests = 0
  /\ receipt = NoReceipt
  /\ page = NoPage
  /\ hook = NoHook
  /\ setup = NoSetup
  /\ inbox = NoInbox
  /\ cron = NoCron
  /\ creating = NoPosts

\* ----------------------------------------------------------------- clock
Tick(d) ==
  /\ now + d <= MaxTicks * 25
  /\ now' = now + d
  /\ UNCHANGED <<client, aux, receipt, db, pass, runs, requests>>

\* --------------------------------------------------------- budgets route
\* getBudgetPeriod: the period that contains the base date
getBudgetPeriod(baseDate) ==
  LET start == (baseDate \div PeriodHours) * PeriodHours
  IN [start |-> start, end |-> start + PeriodHours - 1]

\* POST /api/budgets, for a body that passes createBudgetSchema
\* (amount positive).  The 403 and 400 answers change nothing.
BudgetPOST(u, amount, categoryId) ==
  LET plan == IF u \in DOMAIN subscription THEN subscription[u] ELSE "FREE"
      limit == IF plan = "FREE" THEN FreeBudgetLimit ELSE -1
      activeBudgetsCount ==
        Cardinality({b \in DOMAIN budgets :
                       budgets[b].userId = u /\ budgets[b].isActive})
      period == getBudgetPeriod(now)
      existingBudget ==
        \E b \in DOMAIN budgets :
          /\ budgets[b].userId = u
          /\ budgets[b].categoryId = categoryId
          /\ budgets[b].isActive
          /\ budgets[b].startDate = period.start
          /\ budgets[b].endDate = period.end
  IN /\ requests < MaxRequests
     /\ requests' = requests + 1
     /\ amount > 0
     /\ categoryId # NoCategory => u \in hasCategories
     /\ ~(limit # -1 /\ activeBudgetsCount >= limit)
     /\ ~existingBudget
     /\ budgets' =
          [b \in DOMAIN budgets \cup {nextBudgetId} |->
             IF b = nextBudgetId
             THEN [userId |-> u, categoryId |-> categoryId,
                   amount |-> amount, isActive |-> TRUE,
                   startDate |-> period.start, endDate |-> period.end]
             ELSE budgets[b]]
     /\ nextBudgetId' = nextBudgetId + 1
     /\ UNCHANGED <<client, aux, receipt, now, hasCategories, subscription, prefs, expenses,
                    notifications, pass, runs>>

\* the update bodies the model sends: the route passes the body to
\* prisma.budget.update unvalidated
BudgetUpdates == { [amount |-> 0] }

\* PATCH /api/budgets: the owner's row is updated with the body as sent
BudgetPATCH(u, id, updateData) ==
  /\ requests < MaxRequests
  /\ requests' = requests + 1
  /\ id \in DOMAIN budgets
  /\ budgets[id].userId = u
  /\ budgets' = [budgets EXCEPT ![id] = Merge(budgets[id], updateData)]
  /\ budgets' # budgets
  /\ UNCHANGED <<client, aux, receipt, now, hasCategories, subscription, prefs, nextBudgetId,
                 expenses, notifications, pass, runs>>

\* DELETE /api/budgets?id=: deleteMany on the id and the owner; 404 when no
\* row was deleted
BudgetDELETE(u, id) ==
  /\ requests < MaxRequests
  /\ requests' = requests + 1
  /\ id \in DOMAIN budgets
  /\ budgets[id].userId = u
  /\ budgets' = [b \in DOMAIN budgets \ {id} |-> budgets[b]]
  /\ UNCHANGED <<client, aux, receipt, now, hasCategories, subscription, prefs, nextBudgetId,
                 expenses, notifications, pass, runs>>

\* -------------------------------------------------------- expenses route
\* POST /api/expenses, for a body that passes createExpenseSchema
\* (amount positive); the date is the client's
ExpensePOST(u, amount, categoryId, date) ==
  LET OfUser(e) == e.userId = u
      monthlyExpenseCount == Len(SelectSeq(expenses, OfUser))
      plan == IF u \in DOMAIN subscription THEN subscription[u] ELSE "FREE"
      limit == IF plan = "FREE" THEN FreeExpenseLimit ELSE -1
  IN /\ requests < MaxRequests
     /\ requests' = requests + 1
     /\ amount > 0
     /\ categoryId # NoCategory => u \in hasCategories
     /\ ~(limit # -1 /\ monthlyExpenseCount >= limit)
     /\ expenses' = Append(expenses,
          [userId |-> u, categoryId |-> categoryId, amount |-> amount,
           date |-> date])
     /\ UNCHANGED <<client, aux, receipt, now, hasCategories, subscription, prefs, budgets,
                    nextBudgetId, notifications, pass, runs>>

\* ------------------------------------------- notification preferences route
\* GET /api/notifications/preferences: creates the default row when absent
PreferencesGET(u) ==
  /\ requests < MaxRequests
  /\ requests' = requests + 1
  /\ u \notin DOMAIN prefs
  /\ prefs' = [x \in DOMAIN prefs \cup {u} |->
                 IF x = u THEN DefaultPreference ELSE prefs[x]]
  /\ UNCHANGED <<client, aux, receipt, now, hasCategories, subscription, budgets, nextBudgetId,
                 expenses, notifications, pass, runs>>

\* PATCH /api/notifications/preferences: upsert of the validated body
PreferencesPATCH(u, validatedData) ==
  /\ requests < MaxRequests
  /\ requests' = requests + 1
  /\ prefs' = [x \in DOMAIN prefs \cup {u} |->
                 IF x = u
                 THEN Merge(IF u \in DOMAIN prefs THEN prefs[u]
                            ELSE DefaultPreference, validatedData)
                 ELSE prefs[x]]
  /\ prefs' # prefs
  /\ UNCHANGED <<client, aux, receipt, now, hasCategories, subscription, budgets, nextBudgetId,
                 expenses, notifications, pass, runs>>

\* ---------------------------------------------------- notifications route
\* POST /api/notifications: after ensureUserSetup, stores the body's type and
\* relatedId as sent, under the session's user
NotificationPOST(u, type, relatedId) ==
  /\ requests < MaxRequests
  /\ ensureUserSetup(u)
  /\ notifications' = Append(notifications,
       [userId |-> u, type |-> type, priority |-> "MEDIUM",
        relatedId |-> relatedId, relatedType |-> "none",
        createdAt |-> now, budget |-> 0, origin |-> "api", checkedAt |-> 0])
  /\ requests' = requests + 1
  /\ UNCHANGED <<client, aux, receipt, now, budgets, nextBudgetId, expenses, pass, runs>>

\* ------------------------------------------------------- monitoring pass
\* checkBudgetsAndNotify runs as a sequence of database calls; each call is
\* one step, together with the synchronous code that follows it up to the
\* next call.  pc: idle, spend (calculateBudgetSpending pending), dedup
\* (hasRecentNotification pending), create (createBudgetNotification
\* pending), returned, thrown.
\*
\* evals is the record of what the loop did with each budget, kept for the
\* properties: tier is SKIPPED when the preference check skipped the budget;
\* recentWarning tells whether a BUDGET_WARNING for the budget younger than
\* the window was stored when the budget was decided; checkedAt is the
\* number of notification rows stored at that moment; base is the number of
\* rows stored by earlier calls of the same request slot when the pass
\* started.

\* a variant of Advance that returns the alerts without the creation loop
AdvanceWithoutCreate(q) ==
  IF q.i < Len(q.activeBudgets)
  THEN [q EXCEPT !.i = q.i + 1, !.spent = 0, !.pc = "spend"]
  ELSE [q EXCEPT !.spent = 0, !.pc = "returned"]

\* after the loop body for budget i: the next budget, or the creation loop,
\* or the return of an empty list
Advance(q) ==
  IF q.i < Len(q.activeBudgets)
  THEN [q EXCEPT !.i = q.i + 1, !.spent = 0, !.pc = "spend"]
  ELSE IF q.alerts = <<>>
       THEN [q EXCEPT !.spent = 0, !.pc = "returned"]
       ELSE [q EXCEPT !.spent = 0, !.pc = "create"]

YoungWarning(budgetId) ==
  \E k \in 1..Len(notifications) :
    /\ notifications[k].relatedId = budgetId
    /\ notifications[k].type = "BUDGET_WARNING"
    /\ now - notifications[k].createdAt < DedupWindowHours

\* prisma.budget.findMany: the active budgets whose end date has not passed,
\* each with its owner's notification preference as stored at that moment
findActiveBudgets ==
  LET ids == SortedIds({b \in DOMAIN budgets :
                          budgets[b].isActive /\ budgets[b].endDate >= now})
  IN [k \in 1..Len(ids) |->
        [id |-> ids[k], userId |-> budgets[ids[k]].userId,
         categoryId |-> budgets[ids[k]].categoryId,
         amount |-> budgets[ids[k]].amount,
         startDate |-> budgets[ids[k]].startDate,
         endDate |-> budgets[ids[k]].endDate,
         pref |-> PreferenceOf(budgets[ids[k]].userId)]]

\* checkBudgetsAndNotify is entered and findMany answers
BeginPass(p) ==
  /\ pass[p].pc \in {"idle", "returned", "thrown"}
  /\ runs < MaxRuns
  /\ runs' = runs + 1
  /\ LET found == findActiveBudgets
         earlier == Cardinality({n \in 1..Len(notifications) :
                                   notifications[n].origin = p})
     IN pass' = [pass EXCEPT ![p] =
          IF found = <<>>
          THEN [IdlePass EXCEPT !.pc = "returned", !.base = earlier]
          ELSE [IdlePass EXCEPT !.pc = "spend", !.activeBudgets = found,
                                !.i = 1, !.base = earlier]]
  /\ UNCHANGED <<client, receipt, now, db, requests>>

\* the pass as the cron route starts it, the route itself left out
StartPass(p) == BeginPass(p) /\ UNCHANGED aux

\* a variant of SkipsBudget that skips only on a missing preference
SkipsWithoutPreference(preferences) ==
  preferences = <<>>

\* the preference check of the loop: true when the budget is skipped
SkipsBudget(preferences) ==
  preferences = <<>> \/ ~preferences[1].budgetAlerts

\* line 36, then lines 37-45: the spending lookup answers; the percentage
\* is computed, the budget is skipped on the preference check, and the tier
\* either needs no alert or asks for the dedup lookup
Spend(p) ==
  LET q == pass[p]
      budget == q.activeBudgets[q.i]
      spent == calculateBudgetSpending(budget)
      percentage == Percentage(spent, budget.amount)
      skipped == SkipsBudget(budget.pref)
      tier == IF skipped THEN "SKIPPED"
              ELSE Tier(percentage, Threshold(budget.pref[1]))
      entry == [budgetId |-> budget.id, amount |-> budget.amount,
                spent |-> spent, pref |-> budget.pref, tier |-> tier,
                recentWarning |-> YoungWarning(budget.id),
                checkedAt |-> Len(notifications),
                suppressed |-> FALSE, emitted |-> FALSE]
  IN /\ q.pc = "spend"
     /\ pass' = [pass EXCEPT ![p] =
          IF tier \in {"SKIPPED", "NONE"}
          THEN Advance([q EXCEPT !.spent = spent,
                                 !.evals = Append(q.evals, entry)])
          ELSE [q EXCEPT !.spent = spent, !.pc = "dedup"]]
     /\ UNCHANGED <<client, aux, receipt, now, db, runs, requests>>

\* the catch block of checkBudgetsAndNotify: log and rethrow
Throw(q, stage, budgetId) ==
  [q EXCEPT !.pc = "thrown", !.spent = 0,
            !.error = <<[stage |-> stage, budgetId |-> budgetId]>>]

SpendThrows(p) ==
  /\ pass[p].pc = "spend"
  /\ pass' = [pass EXCEPT ![p] =
       Throw(pass[p], "spending", pass[p].activeBudgets[pass[p].i].id)]
  /\ UNCHANGED <<client, aux, receipt, now, db, runs, requests>>

\* lines 46-66: the dedup lookup answers; the alert is pushed unless a
\* recent notification of its kind exists
Dedup(p) ==
  LET q == pass[p]
      budget == q.activeBudgets[q.i]
      percentage == Percentage(q.spent, budget.amount)
      tier == Tier(percentage, Threshold(budget.pref[1]))
      recent == hasRecentNotification(budget.id, NotificationTypeOf(tier))
      alert == [budgetId |-> budget.id, userId |-> budget.userId,
                spent |-> q.spent, budget |-> budget.amount,
                percentage |-> percentage, type |-> tier,
                checkedAt |-> Len(notifications)]
      entry == [budgetId |-> budget.id, amount |-> budget.amount,
                spent |-> q.spent, pref |-> budget.pref, tier |-> tier,
                recentWarning |-> YoungWarning(budget.id),
                checkedAt |-> Len(notifications),
                suppressed |-> recent, emitted |-> ~recent]
  IN /\ q.pc = "dedup"
     /\ pass' = [pass EXCEPT ![p] =
          Advance([q EXCEPT !.evals = Append(q.evals, entry),
                            !.alerts = IF recent THEN q.alerts
                                       ELSE Append(q.alerts, alert)])]
     /\ UNCHANGED <<client, aux, receipt, now, db, runs, requests>>

DedupThrows(p) ==
  /\ pass[p].pc = "dedup"
  /\ pass' = [pass EXCEPT ![p] =
       Throw(pass[p], "dedup", pass[p].activeBudgets[pass[p].i].id)]
  /\ UNCHANGED <<client, aux, receipt, now, db, runs, requests>>

\* createBudgetNotification: the row stored for an alert
createBudgetNotification(alert, origin) ==
  LET isExceeded == alert.type = "EXCEEDED"
  IN [userId |-> alert.userId,
      type |-> IF isExceeded THEN "BUDGET_EXCEEDED" ELSE "BUDGET_WARNING",
      priority |-> IF isExceeded THEN "HIGH" ELSE "MEDIUM",
      relatedId |-> alert.budgetId, relatedType |-> "budget",
      createdAt |-> now, budget |-> alert.budget, origin |-> origin,
      checkedAt |-> alert.checkedAt]

\* lines 70-74: one notification is created per alert, in order; after the
\* last one the list of alerts is returned
Create(p) ==
  LET q == pass[p]
      alert == q.alerts[q.j + 1]
  IN /\ q.pc = "create"
     /\ notifications' =
          Append(notifications, createBudgetNotification(alert, p))
     /\ pass' = [pass EXCEPT ![p] =
          [q EXCEPT !.j = q.j + 1,
                    !.pc = IF q.j + 1 = Len(q.alerts) THEN "returned"
                           ELSE "create"]]
     /\ UNCHANGED <<client, aux, receipt, now, hasCategories, subscription, prefs, budgets,
                    nextBudgetId, expenses, runs, requests>>

CreateThrows(p) ==
  /\ pass[p].pc = "create"
  /\ pass' = [pass EXCEPT ![p] =
       Throw(pass[p], "create", pass[p].alerts[pass[p].j + 1].budgetId)]
  /\ UNCHANGED <<client, aux, receipt, now, db, runs, requests>>

\* ------------------------------------------------------------------ Next
Handlers ==
  \/ \E u \in Users, a \in BudgetAmounts, c \in {NoCategory} \cup Categories :
       BudgetPOST(u, a, c)
  \/ \E u \in Users, id \in DOMAIN budgets, upd \in BudgetUpdates :
       BudgetPATCH(u, id, upd)
  \/ \E u \in Users, a \in ExpenseAmounts, c \in {NoCategory} \cup Categories :
       ExpensePOST(u, a, c, now)
  \/ \E u \in Users : PreferencesGET(u)
  \/ \E u \in Users, upd \in PreferenceUpdates : PreferencesPATCH(u, upd)
  \/ \E u \in Users, t \in ApiTypes, r \in {NoId} \cup DOMAIN budgets :
       NotificationPOST(u, t, r)

Monitor(p) ==
  \/ StartPass(p)
  \/ Spend(p)
  \/ Dedup(p)
  \/ Create(p)

MonitorThrows(p) ==
  \/ SpendThrows(p)
  \/ DedupThrows(p)
  \/ CreateThrows(p)

\* the cron service calls the endpoint again only after the previous call
\* has answered
Next ==
  \/ \E d \in TickSteps : Tick(d)
  \/ Handlers
  \/ \E p \in Scheduled : Monitor(p) \/ MonitorThrows(p)

Spec == Init /\ [][Next]_vars

\* two cron requests may overlap (a retry of the cron service, or two cron
\* services): both passes run, against the budgets and expenses routes
NextRace ==
  \/ \E d \in TickSteps : Tick(d)
  \/ \E u \in Users, a \in BudgetAmounts : BudgetPOST(u, a, NoCategory)
  \/ \E u \in Users, a \in ExpenseAmounts : ExpensePOST(u, a, NoCategory, now)
  \/ \E p \in Passes : Monitor(p)

SpecRace == Init /\ [][NextRace]_vars

\* the scheduled pass against the preferences, budgets and expenses routes,
\* with every database call answering
NextPreferences ==
  \/ \E d \in TickSteps : Tick(d)
  \/ \E u \in Users : PreferencesGET(u)
  \/ \E u \in Users, upd \in PreferenceUpdates : PreferencesPATCH(u, upd)
  \/ \E u \in Users, a \in BudgetAmounts : BudgetPOST(u, a, NoCategory)
  \/ \E u \in Users, a \in ExpenseAmounts : ExpensePOST(u, a, NoCategory, now)
  \/ \E p \in Scheduled : Monitor(p)

SpecPreferences == Init /\ [][NextPreferences]_vars

\* the scheduled pass, its database calls answering or rejecting, against
\* the budgets, expenses and preferences routes
NextReturns ==
  \/ \E d \in TickSteps : Tick(d)
  \/ \E u \in Users, upd \in PreferenceUpdates : PreferencesPATCH(u, upd)
  \/ \E u \in Users, a \in BudgetAmounts, c \in {NoCategory} \cup Categories :
       BudgetPOST(u, a, c)
  \/ \E u \in Users, a \in ExpenseAmounts, c \in {NoCategory} \cup Categories :
       ExpensePOST(u, a, c, now)
  \/ \E p \in Scheduled : Monitor(p) \/ MonitorThrows(p)

SpecReturns == Init /\ [][NextReturns]_vars

\* the budgets route alone: POST, PATCH with a wider choice of bodies, DELETE
PatchBodies ==
  BudgetUpdates \cup
  { [amount |-> 50], [amount |-> -100], [isActive |-> FALSE],
    [endDate |-> -1], [startDate |-> 2 * PeriodHours] }

NextBudgets ==
  \/ \E d \in TickSteps : Tick(d)
  \/ \E u \in Users, a \in BudgetAmounts, c \in {NoCategory} \cup Categories :
       BudgetPOST(u, a, c)
  \/ \E u \in Users, id \in DOMAIN budgets, upd \in PatchBodies :
       BudgetPATCH(u, id, upd)
  \/ \E u \in Users, id \in DOMAIN budgets : BudgetDELETE(u, id)

SpecBudgets == Init /\ [][NextBudgets]_vars

\* ------------------------------------------- the pass on drawn table states
\* The tables below are ones the handlers above produce (a stored threshold is
\* any value preferencesSchema accepts, an expense any positive amount, a
\* notification any body POST /api/notifications accepts); the pass then
\* runs on them.
NextPass == \E p \in Scheduled : Monitor(p)

ProbeAmounts == {3, 100}

\* one budget of u1, one expense of every total, every threshold
InitTier ==
  /\ now = 0
  /\ hasCategories = {"u1"}
  /\ subscription = [u \in {"u1"} |-> "FREE"]
  /\ \E t \in MinThreshold..MaxThreshold :
       prefs = [u \in {"u1"} |->
                  [budgetAlerts |-> TRUE, budgetThreshold |-> t]]
  /\ \E a \in ProbeAmounts :
       budgets = [b \in {1} |->
         [userId |-> "u1", categoryId |-> NoCategory, amount |-> a,
          isActive |-> TRUE, startDate |-> 0, endDate |-> PeriodHours - 1]]
  /\ nextBudgetId = 2
  /\ \E s \in 0..MaxProbeSpent :
       expenses = IF s = 0 THEN <<>>
                  ELSE <<[userId |-> "u1", categoryId |-> NoCategory,
                          amount |-> s, date |-> 0]>>
  /\ notifications = <<>>
  /\ pass = [p \in Passes |-> IdlePass]
  /\ runs = 0
  /\ requests = 0
  /\ receipt = NoReceipt
  /\ page = NoPage
  /\ hook = NoHook
  /\ setup = NoSetup
  /\ inbox = NoInbox
  /\ cron = NoCron
  /\ creating = NoPosts

SpecTier == InitTier /\ [][NextPass]_vars

\* the notification rows of the drawn stores: either budget kind, about
\* budget 1 or another id, created 25, 24 or 0 hours before the pass
ProbeClock == DedupWindowHours + 1
ProbeRows ==
  [userId : Users, type : BudgetTypes, priority : {"MEDIUM"},
   relatedId : {1, 2}, relatedType : {"none"}, createdAt : {0, 1, ProbeClock},
   budget : {0}, origin : {"api"}, checkedAt : {0}]

\* budget 1 of u1 at 90 % (WARNING) or 180 % (EXCEEDED), and a store of at
\* most two rows
InitDedup ==
  /\ now = ProbeClock
  /\ hasCategories = {"u1"}
  /\ subscription = [u \in {"u1"} |-> "FREE"]
  /\ prefs = [u \in {"u1"} |-> DefaultPreference]
  /\ budgets = [b \in {1} |->
       [userId |-> "u1", categoryId |-> NoCategory, amount |-> 100,
        isActive |-> TRUE, startDate |-> 0, endDate |-> PeriodHours - 1]]
  /\ nextBudgetId = 2
  /\ \E s \in {90, 180} :
       expenses = <<[userId |-> "u1", categoryId |-> NoCategory,
                     amount |-> s, date |-> 0]>>
  /\ \/ notifications = <<>>
     \/ \E r \in ProbeRows : notifications = <<r>>
     \/ \E r1 \in ProbeRows, r2 \in ProbeRows : notifications = <<r1, r2>>
  /\ pass = [p \in Passes |-> IdlePass]
  /\ runs = 0
  /\ requests = 0
  /\ receipt = NoReceipt
  /\ page = NoPage
  /\ hook = NoHook
  /\ setup = NoSetup
  /\ inbox = NoInbox
  /\ cron = NoCron
  /\ creating = NoPosts

SpecDedup == InitDedup /\ [][NextPass]_vars

\* ======================================================= receipt extraction
\* A text is a string; a character is a string of length one.
Char(s, i) == SubSeq(s, i, i)
CharsOf(s) == {Char(s, k) : k \in 1..Len(s)}

UpperChars == "ABCDEFGHIJKLMNOPQRSTUVWXYZ"
LowerChars == "abcdefghijklmnopqrstuvwxyz"
DigitChars == "0123456789"
Upper == CharsOf(UpperChars)
Lower == CharsOf(LowerChars)
Letter == Upper \cup Lower          \* [A-Za-z]
Digit == CharsOf(DigitChars)        \* \d
Space == {" ", "\n", "\t"}          \* \s

\* String.prototype.toLowerCase, on one character and on a text
LowerOf ==
  [c \in Upper |-> Char(LowerChars, CHOOSE k \in 1..Len(UpperChars) :
                                      Char(UpperChars, k) = c)]

RECURSIVE toLowerCase(_)
toLowerCase(s) ==
  IF Len(s) <= 1 THEN (IF s \in Upper THEN LowerOf[s] ELSE s)
  ELSE LET half == Len(s) \div 2
       IN toLowerCase(SubSeq(s, 1, half))
          \o toLowerCase(SubSeq(s, half + 1, Len(s)))

\* ------------------------------------------------- regular expressions
\* A pattern is a tree of nodes.  Ends is the backtracking matcher of the
\* regular-expression engine: for a node and a position of the text it
\* answers the ways the node can match from there, in the order in which
\* backtracking tries them (the greedy choice first); a way is the position
\* after the match with the groups captured so far.
Lit(s) == [op |-> "lit", s |-> s]                 \* the characters of s
OneOf(S) == [op |-> "set", S |-> S]               \* [...]
Cat(items) == [op |-> "cat", items |-> items]     \* r1 r2 ...
Alt(items) == [op |-> "alt", items |-> items]     \* r1 | r2 | ...
Opt(r) == [op |-> "opt", r |-> r]                 \* r?
Star(r) == [op |-> "star", r |-> r]               \* r*
Plus(r) == Cat(<<r, Star(r)>>)                    \* r+
Group(n, r) == [op |-> "group", n |-> n, r |-> r] \* (r), the n-th group
Bol == [op |-> "bol"]                             \* ^
Eol == [op |-> "eol"]                             \* $
Rep12(r) == Cat(<<r, Opt(r)>>)                    \* r{1,2}
Rep24(r) == Cat(<<r, r, Opt(Cat(<<r, Opt(r)>>))>>) \* r{2,4}
Rep4(r) == Cat(<<r, r, r, r>>)                    \* r{4}

NoGroups == <<"", "", "">>

\* one character against a character of the pattern, under the i flag
SameChar(flags, c, d) ==
  c = d \/ (flags.i /\ toLowerCase(c) = toLowerCase(d))

InSet(flags, c, S) ==
  c \in S \/ (flags.i /\ \E d \in S : toLowerCase(c) = toLowerCase(d))

\* the sequences of a sequence, one after the other
RECURSIVE Flatten(_)
Flatten(seqs) ==
  IF Len(seqs) = 0 THEN <<>>
  ELSE IF Len(seqs) = 1 THEN seqs[1]
  ELSE LET half == Len(seqs) \div 2
       IN Flatten(SubSeq(seqs, 1, half))
          \o Flatten(SubSeq(seqs, half + 1, Len(seqs)))

RECURSIVE Ends(_, _, _, _)
RECURSIVE Through(_, _, _, _)

\* the ways to match the nodes of items one after the other, from each of
\* the ways in from, in order
Through(text, flags, items, from) ==
  IF items = <<>> \/ from = <<>> THEN from
  ELSE Through(text, flags, Tail(items),
               Flatten([k \in 1..Len(from) |->
                          Ends(text, flags, Head(items), from[k])]))

Ends(text, flags, h, at) ==
  LET i == at.i
  IN CASE h.op = "lit" ->
            IF /\ i + Len(h.s) - 1 <= Len(text)
               /\ \A j \in 1..Len(h.s) :
                    SameChar(flags, Char(text, i + j - 1), Char(h.s, j))
            THEN <<[at EXCEPT !.i = i + Len(h.s)]>>
            ELSE <<>>
       [] h.op = "set" ->
            IF i <= Len(text) /\ InSet(flags, Char(text, i), h.S)
            THEN <<[at EXCEPT !.i = i + 1]>>
            ELSE <<>>
       [] h.op = "cat" -> Through(text, flags, h.items, <<at>>)
       [] h.op = "alt" ->
            Flatten([k \in 1..Len(h.items) |->
                       Ends(text, flags, h.items[k], at)])
       [] h.op = "opt" -> Ends(text, flags, h.r, at) \o <<at>>
       [] h.op = "star" /\ h.r.op = "set" ->
            \* a repeated character class: the longest run of members
            \* first, then one character less each time
            LET lengths == {n \in 0..(Len(text) + 1 - i) :
                           \A j \in 0..(n - 1) :
                             InSet(flags, Char(text, i + j), h.r.S)}
                longest == CHOOSE n \in lengths : \A o \in lengths : o <= n
            IN [k \in 1..(longest + 1) |->
                  [at EXCEPT !.i = i + longest + 1 - k]]
       [] h.op = "star" /\ h.r.op # "set" ->
            LET once == Ends(text, flags, h.r, at)
            IN Flatten([k \in 1..Len(once) |->
                          IF once[k].i > i
                          THEN Ends(text, flags, h, once[k])
                          ELSE <<>>])
               \o <<at>>
       [] h.op = "group" ->
            LET inner == Ends(text, flags, h.r, at)
            IN [k \in 1..Len(inner) |->
                  [inner[k] EXCEPT
                     !.groups[h.n] = SubSeq(text, i, inner[k].i - 1)]]
       [] h.op = "bol" ->
            IF i = 1 \/ (flags.m /\ Char(text, i - 1) = "\n")
            THEN <<at>> ELSE <<>>
       [] h.op = "eol" ->
            IF i = Len(text) + 1 \/ (flags.m /\ Char(text, i) = "\n")
            THEN <<at>> ELSE <<>>

\* String.prototype.match without the g flag: the leftmost match, as
\* <<[index, end, groups]>>, groups[n] being match[n]; <<>> for null.
\* Search looks for the first start position in lo..hi.
RECURSIVE Search(_, _, _, _, _)
Search(text, flags, re, lo, hi) ==
  IF lo > hi THEN <<>>
  ELSE IF lo = hi
       THEN LET ways == Ends(text, flags, re, [i |-> lo, groups |-> NoGroups])
            IN IF ways # <<>>
               THEN <<[index |-> lo, end |-> ways[1].i,
                       groups |-> ways[1].groups]>>
               ELSE <<>>
       ELSE LET mid == (lo + hi) \div 2
                left == Search(text, flags, re, lo, mid)
            IN IF left # <<>> THEN left
               ELSE Search(text, flags, re, mid + 1, hi)

\* a pattern with its flags
Regex(re, flagString) ==
  [re |-> re, flags |-> [i |-> "i" \in CharsOf(flagString),
                         m |-> "m" \in CharsOf(flagString)]]

match(text, pattern) ==
  Search(text, pattern.flags, pattern.re, 1, Len(text) + 1)

\* ------------------------------------------------------ text helpers
\* text.replace(/\s+/g, ' '): every run of whitespace becomes one space
RECURSIVE dropSpaces(_)
dropSpaces(s) ==
  IF s # "" /\ Head(s) \in Space THEN dropSpaces(Tail(s)) ELSE s

\* characters lo..hi of the result: a whitespace character that follows
\* another one gives nothing, the first of a run gives one space
RECURSIVE collapseRange(_, _, _)
collapseRange(s, lo, hi) ==
  IF lo > hi THEN ""
  ELSE IF lo = hi
       THEN (IF Char(s, lo) \notin Space THEN Char(s, lo)
             ELSE IF lo > 1 /\ Char(s, lo - 1) \in Space THEN ""
             ELSE " ")
       ELSE LET mid == (lo + hi) \div 2
            IN collapseRange(s, lo, mid) \o collapseRange(s, mid + 1, hi)

collapseSpaces(s) == collapseRange(s, 1, Len(s))

\* String.prototype.trim
RECURSIVE dropTrailingSpaces(_)
dropTrailingSpaces(s) ==
  IF s # "" /\ Char(s, Len(s)) \in Space
  THEN dropTrailingSpaces(SubSeq(s, 1, Len(s) - 1))
  ELSE s

trim(s) == dropTrailingSpaces(dropSpaces(s))

\* const cleanText = text.replace(/\s+/g, ' ').trim()
cleanTextOf(text) == trim(collapseSpaces(text))

\* str.replace(/,/g, '')
RECURSIVE removeCommas(_)
removeCommas(s) ==
  IF s = "" THEN ""
  ELSE IF Head(s) = "," THEN removeCommas(Tail(s))
       ELSE Head(s) \o removeCommas(Tail(s))

\* String.prototype.includes
includes(s, part) ==
  \E i \in 1..(Len(s) - Len(part) + 1) : SubSeq(s, i, i + Len(part) - 1) = part

DigitValue(c) == CHOOSE v \in 0..9 : Char(DigitChars, v + 1) = c

\* the digits at the start of s, and their value
RECURSIVE leadingDigits(_)
leadingDigits(s) ==
  IF s # "" /\ Head(s) \in Digit THEN Head(s) \o leadingDigits(Tail(s))
  ELSE ""

RECURSIVE valueOfDigits(_)
valueOfDigits(s) ==
  IF s = "" THEN 0
  ELSE 10 * valueOfDigits(SubSeq(s, 1, Len(s) - 1))
       + DigitValue(Char(s, Len(s)))

\* parseInt of a string that starts with a digit
parseInt(s) == valueOfDigits(leadingDigits(s))

\* parseFloat of a string of digits with at most two decimals, which is what
\* the amount patterns capture once the commas are removed.  The number is
\* kept in hundredths: 880.00 is 88000.
parseFloat(s) ==
  LET whole == leadingDigits(s)
      after == SubSeq(s, Len(whole) + 1, Len(s))
      decimals == IF after # "" /\ Head(after) = "."
                  THEN leadingDigits(Tail(after)) ELSE ""
      scaled == IF Len(decimals) = 0 THEN 0
                ELSE IF Len(decimals) = 1 THEN 10 * valueOfDigits(decimals)
                ELSE valueOfDigits(SubSeq(decimals, 1, 2))
  IN 100 * valueOfDigits(whole) + scaled

\* ------------------------------------------------------------- amount
\* (?:₹|rs\.?|inr)
Currency == Alt(<<Lit("₹"), Cat(<<Lit("rs"), Opt(Lit("."))>>), Lit("inr")>>)

\* (\d+(?:[,\d]*)?(?:\.\d{1,2})?)
Number ==
  Group(1, Cat(<<Plus(OneOf(Digit)),
                 Opt(Star(OneOf({","} \cup Digit))),
                 Opt(Cat(<<Lit("."), Rep12(OneOf(Digit))>>))>>))

\* keyword[:\s]*(?:₹|rs\.?|inr)?\s*(number)
Keyworded(keyword) ==
  Cat(<<keyword, Star(OneOf({":"} \cup Space)), Opt(Currency),
        Star(OneOf(Space)), Number>>)

\* AWSTextractService.extractDataFromText: amountPatterns
amountPatterns ==
  << Regex(Keyworded(Lit("total")), "i"),
     Regex(Keyworded(Cat(<<Lit("grand"), Star(OneOf(Space)), Lit("total")>>)),
           "i"),
     Regex(Keyworded(Lit("amount")), "i"),
     Regex(Cat(<<Currency, Star(OneOf(Space)), Number, Star(OneOf(Space)),
                 Opt(Alt(<<Lit("total"), Lit("paid")>>))>>), "i"),
     Regex(Keyworded(Cat(<<Lit("net"), Star(OneOf(Space)), Lit("payable")>>)),
           "i"),
     Regex(Keyworded(Lit("subtotal")), "i") >>

\* the receipts route: extractionPatterns.amount
routeAmountPatterns ==
  << Regex(Keyworded(Lit("total")), "i"),
     Regex(Keyworded(Cat(<<Lit("grand"), Star(OneOf(Space)), Lit("total")>>)),
           "i"),
     Regex(Keyworded(Lit("amount")), "i"),
     Regex(Cat(<<Currency, Star(OneOf(Space)), Number, Star(OneOf(Space)),
                 Alt(<<Lit("total"), Lit("paid")>>)>>), "i") >>

\* an amount loop that would end at the first pattern that matches, whether
\* or not its amount is accepted
RECURSIVE extractAmountAtFirstMatch(_, _)
extractAmountAtFirstMatch(cleanText, patterns) ==
  IF patterns = <<>> THEN <<>>
  ELSE LET found == match(cleanText, Head(patterns))
           amount == parseFloat(removeCommas(found[1].groups[1]))
       IN IF found # <<>>
          THEN (IF amount > 0 THEN <<amount>> ELSE <<>>)
          ELSE extractAmountAtFirstMatch(cleanText, Tail(patterns))

\* the amount loop of both extractors: the first pattern that matches with
\* a positive amount sets the field; <<>> when the field stays unset
RECURSIVE extractAmount(_, _)
extractAmount(cleanText, patterns) ==
  IF patterns = <<>> THEN <<>>
  ELSE LET found == match(cleanText, Head(patterns))
           amountStr == removeCommas(found[1].groups[1])
           amount == parseFloat(amountStr)
       IN IF found # <<>> /\ amount > 0 THEN <<amount>>
          ELSE extractAmount(cleanText, Tail(patterns))

\* --------------------------------------------------------------- dates
isLeapYear(y) == (y % 4 = 0 /\ y % 100 # 0) \/ y % 400 = 0

daysInMonth(y, m) ==
  IF m = 2 THEN (IF isLeapYear(y) THEN 29 ELSE 28)
  ELSE IF m \in {4, 6, 9, 11} THEN 30 ELSE 31

\* the calendar day that is day d of month m of year y, d being any integer
\* (day 0 is the last day of the month before, day 32 runs into the next)
RECURSIVE rollDays(_, _, _)
rollDays(y, m, d) ==
  IF d < 1
  THEN LET py == IF m = 1 THEN y - 1 ELSE y
           pm == IF m = 1 THEN 12 ELSE m - 1
       IN rollDays(py, pm, d + daysInMonth(py, pm))
  ELSE IF d > daysInMonth(y, m)
       THEN rollDays(IF m = 12 THEN y + 1 ELSE y, IF m = 12 THEN 1 ELSE m + 1,
                     d - daysInMonth(y, m))
       ELSE [year |-> y, month |-> m, day |-> d]

\* new Date(year, monthIndex, day): local midnight of the day the arguments
\* denote once they are normalised (a month index outside 0..11 moves the
\* year, a day outside the month moves the month; a year 0..99 is 1900+year).
\* The result is never an invalid date for integer arguments of this size.
NewDate(year, monthIndex, day) ==
  LET fullYear == IF year >= 0 /\ year <= 99 THEN 1900 + year ELSE year
  IN rollDays(fullYear + (monthIndex \div 12), (monthIndex % 12) + 1, day)

\* n in decimal, padded with zeros to the width
RECURSIVE padded(_, _)
padded(n, width) ==
  IF width = 0 THEN ""
  ELSE padded(n \div 10, width - 1) \o Char(DigitChars, (n % 10) + 1)

\* date.toISOString().split('T')[0] for a date at local midnight, on a
\* server whose clock is timezoneOffset minutes ahead of UTC: the instant is
\* local midnight minus the offset, so it falls on the previous UTC day when
\* the server is ahead of UTC
toISODate(date, timezoneOffset) ==
  LET utc == IF timezoneOffset > 0
             THEN rollDays(date.year, date.month, date.day - 1)
             ELSE date
  IN padded(utc.year, 4) \o "-" \o padded(utc.month, 2) \o "-"
     \o padded(utc.day, 2)

\* year += year < 50 ? 2000 : 1900, for year < 100
expandYear(year) ==
  IF year < 100 THEN (IF year < 50 THEN year + 2000 ELSE year + 1900)
  ELSE year

Sep == OneOf({"-", "/", "."})                        \* [-/.]
D12 == Rep12(OneOf(Digit))                           \* \d{1,2}
D24 == Rep24(OneOf(Digit))                           \* \d{2,4}
D4 == Rep4(OneOf(Digit))                             \* \d{4}
MonthWord ==
  Alt(<<Lit("jan"), Lit("feb"), Lit("mar"), Lit("apr"), Lit("may"),
        Lit("jun"), Lit("jul"), Lit("aug"), Lit("sep"), Lit("oct"),
        Lit("nov"), Lit("dec")>>)

\* AWSTextractService.extractDataFromText: datePatterns
datePatterns ==
  << Regex(Cat(<<Lit("date"), Star(OneOf({":"} \cup Space)),
                 Group(1, Cat(<<D12, Sep, D12, Sep, D24>>))>>), "i"),
     Regex(Group(1, Cat(<<D12, Sep, D12, Sep, D24>>)), ""),
     Regex(Group(1, Cat(<<D4, Sep, D12, Sep, D12>>)), ""),
     Regex(Group(1, Cat(<<D12, Plus(OneOf(Space)), MonthWord,
                          Star(OneOf(Lower)), Plus(OneOf(Space)), D24>>)),
           "i") >>

\* the receipts route: extractionPatterns.date
routeDatePatterns ==
  << Regex(Cat(<<Lit("date"), Star(OneOf({":"} \cup Space)),
                 Group(1, Cat(<<D12, Sep, D12, Sep, D24>>))>>), "i"),
     Regex(Group(1, Cat(<<D12, Sep, D12, Sep, D24>>)), ""),
     Regex(Group(1, Cat(<<D4, Sep, D12, Sep, D12>>)), "") >>

monthMap ==
  <<"jan", "feb", "mar", "apr", "may", "jun", "jul", "aug", "sep", "oct",
    "nov", "dec">>

\* AWSTextractService.parseIndianDate: <<the ISO date>>, or <<>> for null
parseIndianDate(dateString, timezoneOffset) ==
  LET dateStr == trim(dateString)
      ddmmyyyyMatch ==
        match(dateStr, Regex(Cat(<<Bol, Group(1, D12), Sep, Group(2, D12),
                                   Sep, Group(3, D24), Eol>>), ""))
      yyyymmddMatch ==
        match(dateStr, Regex(Cat(<<Bol, Group(1, D4), Sep, Group(2, D12),
                                   Sep, Group(3, D12), Eol>>), ""))
      textMonthMatch ==
        match(dateStr, Regex(Cat(<<Bol, Group(1, D12), Plus(OneOf(Space)),
                                   Group(2, Plus(OneOf(Letter))),
                                   Plus(OneOf(Space)), Group(3, D24), Eol>>),
                             "i"))
      monthStr == SubSeq(toLowerCase(textMonthMatch[1].groups[2]), 1, 3)
  IN IF ddmmyyyyMatch # <<>>
     THEN LET g == ddmmyyyyMatch[1].groups
          IN <<toISODate(NewDate(expandYear(parseInt(g[3])),
                                 parseInt(g[2]) - 1, parseInt(g[1])),
                         timezoneOffset)>>
     ELSE IF yyyymmddMatch # <<>>
     THEN LET g == yyyymmddMatch[1].groups
          IN <<toISODate(NewDate(parseInt(g[1]), parseInt(g[2]) - 1,
                                 parseInt(g[3])),
                         timezoneOffset)>>
     ELSE IF textMonthMatch # <<>>
             /\ \E k \in 1..Len(monthMap) : monthMap[k] = monthStr
     THEN LET g == textMonthMatch[1].groups
              monthIndex == (CHOOSE k \in 1..Len(monthMap) :
                               monthMap[k] = monthStr) - 1
          IN <<toISODate(NewDate(expandYear(parseInt(g[3])), monthIndex,
                                 parseInt(g[1])),
                         timezoneOffset)>>
     ELSE <<>>

\* the receipts route: parseReceiptDate followed by
\* toISOString().split('T')[0]; both formats are searched anywhere in the
\* string, and a first group of four digits selects the year-first reading
routeFormats ==
  << Regex(Cat(<<Group(1, D12), Sep, Group(2, D12), Sep, Group(3, D24)>>), ""),
     Regex(Cat(<<Group(1, D24), Sep, Group(2, D12), Sep, Group(3, D12)>>), "")
  >>

RECURSIVE parseReceiptDateWith(_, _, _)
parseReceiptDateWith(dateStr, formats, timezoneOffset) ==
  IF formats = <<>> THEN <<>>
  ELSE LET found == match(dateStr, Head(formats))
           g == found[1].groups
       IN IF found # <<>>
          THEN IF Len(g[1]) = 4
               THEN <<toISODate(NewDate(parseInt(g[1]), parseInt(g[2]) - 1,
                                        parseInt(g[3])),
                                timezoneOffset)>>
               ELSE <<toISODate(NewDate(expandYear(parseInt(g[3])),
                                        parseInt(g[2]) - 1, parseInt(g[1])),
                                timezoneOffset)>>
          ELSE parseReceiptDateWith(dateStr, Tail(formats), timezoneOffset)

parseReceiptDate(dateStr, timezoneOffset) ==
  parseReceiptDateWith(dateStr, routeFormats, timezoneOffset)

\* the date loop of extractDataFromText: the first pattern that matches
\* with a parsed date sets the field
RECURSIVE extractDate(_, _, _)
extractDate(cleanText, patterns, timezoneOffset) ==
  IF patterns = <<>> THEN <<>>
  ELSE LET found == match(cleanText, Head(patterns))
           parsedDate == parseIndianDate(found[1].groups[1], timezoneOffset)
       IN IF found # <<>> /\ parsedDate # <<>> THEN parsedDate
          ELSE extractDate(cleanText, Tail(patterns), timezoneOffset)

\* the date loop of extractReceiptData
RECURSIVE routeExtractDate(_, _, _)
routeExtractDate(cleanText, patterns, timezoneOffset) ==
  IF patterns = <<>> THEN <<>>
  ELSE LET found == match(cleanText, Head(patterns))
           parsedDate == parseReceiptDate(found[1].groups[1], timezoneOffset)
       IN IF found # <<>> /\ parsedDate # <<>> THEN parsedDate
          ELSE routeExtractDate(cleanText, Tail(patterns), timezoneOffset)

\* ------------------------------------------------------------ merchant
MerchantChar == Letter \cup Space \cup {"&", "'", ".", ",", "-"}

\* keyword[:\s]*([A-Za-z\s&'.,-]+)
MerchantAfter(keyword) ==
  Cat(<<keyword, Star(OneOf({":"} \cup Space)),
        Group(1, Plus(OneOf(MerchantChar)))>>)

\* ^([A-Z][A-Za-z\s&'.,-]+)(?:\n|$) with the m flag
CapitalizedLine ==
  Cat(<<Bol, Group(1, Cat(<<OneOf(Upper), Plus(OneOf(MerchantChar))>>)),
        Alt(<<Lit("\n"), Eol>>)>>)

\* AWSTextractService.extractDataFromText: merchantPatterns
merchantPatterns ==
  << Regex(CapitalizedLine, "m"),
     Regex(MerchantAfter(Lit("from")), "i"),
     Regex(MerchantAfter(Lit("merchant")), "i"),
     Regex(MerchantAfter(Lit("store")), "i"),
     Regex(MerchantAfter(Cat(<<Lit("billed"), Star(OneOf(Space)),
                               Lit("to")>>)), "i") >>

\* the receipts route: extractionPatterns.merchant
routeMerchantPatterns ==
  << Regex(CapitalizedLine, "m"),
     Regex(MerchantAfter(Lit("from")), "i"),
     Regex(MerchantAfter(Lit("merchant")), "i"),
     Regex(MerchantAfter(Lit("store")), "i") >>

commonMerchants ==
  << "Swiggy", "Zomato", "BigBasket", "Amazon", "Flipkart", "Myntra",
     "Reliance", "DMart", "Spencer", "More", "Big Bazaar", "Shoppers Stop",
     "Dominos", "Pizza Hut", "McDonald", "KFC", "Burger King", "Subway",
     "Uber", "Ola", "Rapido", "Metro", "Petrol", "Shell", "HP", "Indian Oil",
     "Paytm", "PhonePe", "Google Pay", "HDFC", "ICICI", "SBI", "Axis" >>

\* the loop over commonMerchants: the first name of the list that the text
\* contains, case ignored
knownMerchant(cleanText, names) ==
  LET held == {k \in 1..Len(names) :
                 includes(toLowerCase(cleanText), toLowerCase(names[k]))}
  IN IF held = {} THEN <<>>
     ELSE <<names[CHOOSE k \in held : \A o \in held : k <= o]>>

\* the loop over the merchant patterns: the first pattern that matches with
\* a candidate of 3 to 49 characters sets the field
RECURSIVE merchantFromPatterns(_, _)
merchantFromPatterns(cleanText, patterns) ==
  IF patterns = <<>> THEN <<>>
  ELSE LET found == match(cleanText, Head(patterns))
           merchant == trim(found[1].groups[1])
       IN IF found # <<>> /\ Len(merchant) > 2 /\ Len(merchant) < 50
          THEN <<merchant>>
          ELSE merchantFromPatterns(cleanText, Tail(patterns))

\* extractDataFromText: a known merchant first, the patterns otherwise
extractMerchant(cleanText) ==
  LET known == knownMerchant(cleanText, commonMerchants)
  IN IF known # <<>> THEN known
     ELSE merchantFromPatterns(cleanText, merchantPatterns)

\* extractReceiptData: the patterns only
routeExtractMerchant(cleanText) ==
  merchantFromPatterns(cleanText, routeMerchantPatterns)

\* ------------------------------------------------------ payment method
PaymentMethods ==
  {"CASH", "CREDIT_CARD", "DEBIT_CARD", "UPI", "WALLET", "NET_BANKING"}

\* keyword([A-Za-z\s]+)
MethodAfter(keyword) ==
  Cat(<<keyword, Group(1, Plus(OneOf(Letter \cup Space)))>>)

ColonsSpaces == Star(OneOf({":"} \cup Space))     \* [:\s]*

\* AWSTextractService.extractDataFromText: paymentPatterns
paymentPatterns ==
  << Regex(MethodAfter(Cat(<<Lit("payment"), ColonsSpaces,
                             Opt(Cat(<<Lit("method"), ColonsSpaces>>))>>)),
           "i"),
     Regex(MethodAfter(Cat(<<Lit("paid"), Star(OneOf(Space)),
                             Alt(<<Lit("by"), Lit("via")>>), ColonsSpaces>>)),
           "i"),
     Regex(Group(1, Alt(<<Lit("cash"), Lit("card"), Lit("credit"),
                          Lit("debit"), Lit("upi"), Lit("paytm"),
                          Lit("phonepe"), Lit("gpay"),
                          Cat(<<Lit("google"), Star(OneOf(Space)),
                                Lit("pay")>>),
                          Lit("wallet"),
                          Cat(<<Lit("net"), Star(OneOf(Space)),
                                Lit("banking")>>),
                          Lit("neft"), Lit("imps"), Lit("rtgs")>>)), "i"),
     Regex(MethodAfter(Cat(<<Lit("mode"), ColonsSpaces>>)), "i") >>

\* the receipts route: extractionPatterns.paymentMethod
routePaymentPatterns ==
  << Regex(MethodAfter(Cat(<<Lit("payment"), ColonsSpaces,
                             Opt(Cat(<<Lit("method"), ColonsSpaces>>))>>)),
           "i"),
     Regex(MethodAfter(Cat(<<Lit("paid"), Star(OneOf(Space)),
                             Alt(<<Lit("by"), Lit("via")>>), ColonsSpaces>>)),
           "i"),
     Regex(Group(1, Alt(<<Lit("cash"), Lit("card"), Lit("credit"),
                          Lit("debit"), Lit("upi"), Lit("paytm"),
                          Lit("phonepe"), Lit("gpay"), Lit("wallet")>>)),
           "i") >>

\* the own keys of the mappings object of AWSTextractService.mapPaymentMethod
mappings ==
  { <<"cash", "CASH">>, <<"card", "CREDIT_CARD">>, <<"credit", "CREDIT_CARD">>,
    <<"credit card", "CREDIT_CARD">>, <<"debit", "DEBIT_CARD">>,
    <<"debit card", "DEBIT_CARD">>, <<"upi", "UPI">>, <<"paytm", "WALLET">>,
    <<"phonepe", "WALLET">>, <<"phone pe", "WALLET">>, <<"gpay", "UPI">>,
    <<"google pay", "UPI">>, <<"googlepay", "UPI">>, <<"wallet", "WALLET">>,
    <<"net banking", "NET_BANKING">>, <<"netbanking", "NET_BANKING">>,
    <<"internet banking", "NET_BANKING">>, <<"neft", "NET_BANKING">>,
    <<"imps", "NET_BANKING">>, <<"rtgs", "NET_BANKING">> }

\* the own keys of the mappings object of the route's mapPaymentMethod
routeMappings ==
  { <<"cash", "CASH">>, <<"card", "CREDIT_CARD">>, <<"credit", "CREDIT_CARD">>,
    <<"credit card", "CREDIT_CARD">>, <<"debit", "DEBIT_CARD">>,
    <<"debit card", "DEBIT_CARD">>, <<"upi", "UPI">>, <<"paytm", "WALLET">>,
    <<"phonepe", "WALLET">>, <<"gpay", "UPI">>, <<"google pay", "UPI">>,
    <<"wallet", "WALLET">>, <<"net banking", "NET_BANKING">>,
    <<"netbanking", "NET_BANKING">> }

\* what a plain object answers for a key that is not its own: the members
\* it inherits from Object.prototype.  "constructor" is the one whose name
\* the payment patterns can capture (lower-case letters only); its value is
\* the function Object.
inherited == { <<"constructor", "function Object">> }

\* mappings[method] || null, on a table of own keys: <<the value>>, or <<>>
\* for null
lookup(table, method) ==
  LET hits == {pair \in table \cup inherited : pair[1] = method}
  IN IF hits = {} THEN <<>> ELSE <<(CHOOSE pair \in hits : TRUE)[2]>>

mapPaymentMethod(method) == lookup(mappings, method)
routeMapPaymentMethod(method) == lookup(routeMappings, method)

\* the payment loop of extractDataFromText: the first pattern that matches
\* with a mapped method sets the field
RECURSIVE extractPaymentMethod(_, _)
extractPaymentMethod(cleanText, patterns) ==
  IF patterns = <<>> THEN <<>>
  ELSE LET found == match(cleanText, Head(patterns))
           method == trim(toLowerCase(found[1].groups[1]))
           mappedMethod == mapPaymentMethod(method)
       IN IF found # <<>> /\ mappedMethod # <<>> THEN mappedMethod
          ELSE extractPaymentMethod(cleanText, Tail(patterns))

\* the payment loop of extractReceiptData: every pattern that matches
\* assigns the field, with null for an unmapped method, and the loop ends
\* at the first mapped one.  current is the field so far.
RECURSIVE routeExtractPaymentMethod(_, _, _)
routeExtractPaymentMethod(cleanText, patterns, current) ==
  IF patterns = <<>> THEN current
  ELSE LET found == match(cleanText, Head(patterns))
           method == trim(toLowerCase(found[1].groups[1]))
           mapped == routeMapPaymentMethod(method)
       IN IF found = <<>>
          THEN routeExtractPaymentMethod(cleanText, Tail(patterns), current)
          ELSE IF mapped # <<>> THEN mapped
          ELSE routeExtractPaymentMethod(cleanText, Tail(patterns),
                                         <<JsNull>>)

\* ---------------------------------------------------------- description
\* `${amount}` for an amount held in hundredths: 88000 is "880", 85050 is
\* "850.5", 85005 is "850.05"
RECURSIVE digitsOf(_)
digitsOf(n) ==
  IF n < 10 THEN Char(DigitChars, n + 1)
  ELSE digitsOf(n \div 10) \o Char(DigitChars, (n % 10) + 1)

numberText(amount) ==
  LET whole == digitsOf(amount \div 100)
      cents == amount % 100
  IN IF cents = 0 THEN whole
     ELSE IF cents % 10 = 0 THEN whole \o "." \o digitsOf(cents \div 10)
     ELSE whole \o "." \o padded(cents, 2)

\* extractDataFromText: the description, once merchant and amount are known
describe(merchant, amount) ==
  IF merchant = <<>> THEN <<>>
  ELSE IF amount = <<>> THEN <<"Purchase at " \o merchant[1]>>
  ELSE <<"Purchase at " \o merchant[1] \o " for ₹" \o numberText(amount[1])>>

\* extractReceiptData: the description names the merchant only
routeDescribe(merchant) ==
  IF merchant = <<>> THEN <<>> ELSE <<"Purchase at " \o merchant[1]>>

\* ----------------------------------------------------- the two extractors
\* AWSTextractService.extractDataFromText
extractDataFromText(text, timezoneOffset) ==
  LET cleanText == cleanTextOf(text)
      amount == extractAmount(cleanText, amountPatterns)
      merchant == extractMerchant(cleanText)
  IN [amount |-> amount,
      date |-> extractDate(cleanText, datePatterns, timezoneOffset),
      merchant |-> merchant,
      paymentMethod |-> extractPaymentMethod(cleanText, paymentPatterns),
      description |-> describe(merchant, amount)]

\* extractReceiptData of the receipts route
extractReceiptData(ocrText, timezoneOffset) ==
  LET cleanText == cleanTextOf(ocrText)
      merchant == routeExtractMerchant(cleanText)
  IN [amount |-> extractAmount(cleanText, routeAmountPatterns),
      date |-> routeExtractDate(cleanText, routeDatePatterns, timezoneOffset),
      merchant |-> merchant,
      paymentMethod |->
        routeExtractPaymentMethod(cleanText, routePaymentPatterns, <<>>),
      description |-> routeDescribe(merchant)]

\* ------------------------------------------------------- receipt texts
SubtotalLine == "Subtotal: ₹850.00"
TotalLine == "Total: ₹880.00"

\* dates written D/M/YY with the day they name
ShortYearDates ==
  { [written |-> "15/01/24", iso |-> "2024-01-15"],
    [written |-> "5-12-99", iso |-> "1999-12-05"] }

\* dates that name no day of the calendar: month 13, 31 February, day 32
InvalidDates == {"15/13/2024", "31-02-2024", "32.01.2024"}

DateLines ==
  {"Date: " \o d.written : d \in ShortYearDates} \cup InvalidDates

\* lines a recognised receipt can hold
Lines ==
  { SubtotalLine, TotalLine, "Total: 0", "Amount: Rs. 1,200.50",
    "BigBasket", "Store: Acme Traders", "Thank you for visiting",
    "Payment Method: UPI", "Payment: constructor", "paid via card" }
  \cup DateLines

\* the text performOCR of the receipts route answers, for the day it runs
mockText(today) ==
  "BigBasket\n    Your Daily Needs Delivered\n    \n    Date: " \o today
  \o "\n    Order #: BBK3J9X2A1Q\n    \n    Items:\n    Vegetables & Fruits"
  \o "\n    Dairy Products\n    Groceries\n    \n    " \o SubtotalLine
  \o "\n    Delivery: ₹30.00\n    \n    " \o TotalLine
  \o "\n    \n    Payment Method: UPI\n    \n    Thank you for shopping with us!"

\* the texts handed to the extractors: one line, two different lines, the
\* sample text
ReceiptTexts ==
  LET pairs == {p \in Lines \X Lines : p[1] # p[2]}
  IN Lines \cup {p[1] \o "\n" \o p[2] : p \in pairs}
           \cup {mockText("2/11/2026")}

\* minutes the server's clock is ahead of UTC: New York, UTC, Kolkata
TimezoneOffsets == {-300, 0, 330}

\* a text has been recognised and waits for an extractor
InitReceipts ==
  /\ now = 0
  /\ hasCategories = {"u1"}
  /\ subscription = [u \in {"u1"} |-> "FREE"]
  /\ prefs = [u \in {"u1"} |-> DefaultPreference]
  /\ budgets = <<>>
  /\ nextBudgetId = 1
  /\ expenses = <<>>
  /\ notifications = <<>>
  /\ pass = [p \in Passes |-> IdlePass]
  /\ runs = 0
  /\ requests = 0
  /\ \E text \in ReceiptTexts, timezoneOffset \in TimezoneOffsets :
       receipt = [pc |-> "recognised", text |-> text,
                  timezoneOffset |-> timezoneOffset, by |-> "none",
                  extractedData |-> NoData]
  /\ page = NoPage
  /\ hook = NoHook
  /\ setup = NoSetup
  /\ inbox = NoInbox
  /\ cron = NoCron
  /\ creating = NoPosts

\* AWSTextractService.processImage, from the recognised text on
processImage ==
  /\ receipt.pc = "recognised"
  /\ receipt' = [receipt EXCEPT
       !.pc = "extracted", !.by = "service",
       !.extractedData = extractDataFromText(receipt.text,
                                             receipt.timezoneOffset)]
  /\ UNCHANGED <<client, aux, now, db, pass, runs, requests>>

\* NextResponse.json of an extractedData object: JSON.stringify leaves out a
\* property whose value is a function and writes null as null
toJSON(extractedData) ==
  [extractedData EXCEPT
     !.paymentMethod = IF @ = <<"function Object">> THEN <<>> ELSE @]

\* the page's fetch is settled with a response
Answered(status, extractedData, imageUrl) ==
  [page EXCEPT !.pc = "answered",
               !.response = [status |-> status,
                             extractedData |-> extractedData,
                             imageUrl |-> imageUrl]]

\* POST of the receipts route, from the recognised text on; a user on the
\* FREE plan is answered 403 before any text is read.  The page that waits
\* for this request is handed the JSON of the answer.
ReceiptPOST(u) ==
  /\ receipt.pc = "recognised"
  /\ ~(u \in DOMAIN subscription /\ subscription[u] = "FREE")
  /\ receipt' = [receipt EXCEPT
       !.pc = "extracted", !.by = "route",
       !.extractedData = extractReceiptData(receipt.text,
                                            receipt.timezoneOffset)]
  /\ page' = IF page.pc = "fetching" /\ page.user = u
             THEN Answered(200, toJSON(receipt'.extractedData), "/receipts/1")
             ELSE page
  /\ UNCHANGED <<hook, aux, now, db, pass, runs, requests>>

NextReceipts ==
  \/ processImage
  \/ \E u \in Users : ReceiptPOST(u)

SpecReceipts == InitReceipts /\ [][NextReceipts]_vars

Extracted == receipt.pc = "extracted"

\* ------------------------------------------------- the new-expense page
\* the texts read off the receipts a user uploads: one with every field, one
\* without a field, one with a merchant only, a payment method the table
\* does not hold, a payment method named like an inherited property
UploadTexts ==
  { "Total: ₹880.00\nDate: 2/11/2026\nUPI\nStore: Acme Traders",
    "Total: 0", "Store: Acme Traders", "Payment: cheque",
    "Payment: constructor" }

\* what a user types into the manual form
Typed == [amount |-> "12", notes |-> "lunch"]

\* the page is opened by either user
InitUpload ==
  /\ now = 0
  /\ hasCategories = {"u1"}
  /\ subscription = [u \in {"u1"} |-> "FREE"]
  /\ prefs = [u \in {"u1"} |-> DefaultPreference]
  /\ budgets = <<>>
  /\ nextBudgetId = 1
  /\ expenses = <<>>
  /\ notifications = <<>>
  /\ pass = [p \in Passes |-> IdlePass]
  /\ runs = 0
  /\ requests = 0
  /\ receipt = NoReceipt
  /\ \E u \in Users : page = [NoPage EXCEPT !.user = u]
  /\ hook = NoHook
  /\ setup = NoSetup
  /\ inbox = NoInbox
  /\ cron = NoCron
  /\ creating = NoPosts

\* handleFileSelect with an image of at most 5MB, and processReceipt up to
\* its fetch: the buttons are disabled while a receipt is processed and
\* hidden while a preview is shown
handleFileSelect ==
  /\ requests < MaxRequests
  /\ page.pc = "idle"
  /\ ~page.isProcessing
  /\ ~page.imagePreview
  /\ page' = [page EXCEPT !.pc = "fetching", !.isProcessing = TRUE,
                          !.imagePreview = TRUE]
  /\ requests' = requests + 1
  /\ UNCHANGED <<hook, aux, receipt, now, db, pass, runs>>

\* performOCR of the receipts route, reached by a request that passed the
\* plan gate: the text read off the image
performOCR(u, text) ==
  /\ page.pc = "fetching"
  /\ page.user = u
  /\ receipt.pc # "recognised"
  /\ ~(u \in DOMAIN subscription /\ subscription[u] = "FREE")
  /\ receipt' = [receipt EXCEPT !.pc = "recognised", !.text = text,
                                !.by = "none", !.extractedData = NoData]
  /\ UNCHANGED <<client, aux, now, db, pass, runs, requests>>

\* POST of the receipts route for a user whose plan is FREE: 403
ReceiptRefused(u) ==
  /\ page.pc = "fetching"
  /\ page.user = u
  /\ u \in DOMAIN subscription /\ subscription[u] = "FREE"
  /\ page' = Answered(403, NoData, "")
  /\ UNCHANGED <<hook, aux, receipt, now, db, pass, runs, requests>>

\* the request fails: the route answers 400 or 500, or fetch rejects (0);
\* a text that was read off the image is dropped with the request
ReceiptFails ==
  /\ page.pc = "fetching"
  /\ \E status \in {0, 400, 500} : page' = Answered(status, NoData, "")
  /\ receipt' = IF receipt.pc = "recognised" THEN NoReceipt ELSE receipt
  /\ UNCHANGED <<hook, aux, now, db, pass, runs, requests>>

\* JavaScript's truthiness of an optional number and of an optional string
TruthyNumber(field) == field # <<>> /\ field[1] # 0
TruthyString(field) == field # <<>> /\ field[1] # JsNull /\ field[1] # ""

\* ExpenseForm.handleReceiptProcessed: setValue for each truthy field
handleReceiptProcessed(form, data) ==
  [form EXCEPT
     !.amount = IF TruthyNumber(data.amount)
                THEN numberText(data.amount[1]) ELSE @,
     !.merchant = IF TruthyString(data.merchant) THEN data.merchant[1] ELSE @,
     !.date = IF TruthyString(data.date) THEN data.date[1] ELSE @,
     !.description = IF TruthyString(data.description)
                     THEN data.description[1] ELSE @,
     !.paymentMethod = IF TruthyString(data.paymentMethod)
                       THEN data.paymentMethod[1] ELSE @]

\* processReceipt with the clearing of isProcessing at the end of the try
\* block instead of in a finally block
processReceiptWithoutFinally ==
  /\ page.pc = "answered"
  /\ LET ok == page.response.status = 200
     IN page' = [page EXCEPT
          !.pc = "idle",
          !.isProcessing = IF ok THEN FALSE ELSE @,
          !.response = NoResponse,
          !.activeTab = IF ok THEN "manual" ELSE @]
  /\ UNCHANGED <<hook, aux, receipt, now, db, pass, runs, requests>>

\* processReceipt from the settled fetch on: a response that is not ok
\* throws into the catch, an ok response hands extractedData and imageUrl to
\* the form; finally isProcessing is cleared
processReceiptSettled ==
  /\ page.pc = "answered"
  /\ LET ok == page.response.status = 200
         filled == handleReceiptProcessed(page.form,
                                          page.response.extractedData)
         url == page.response.imageUrl
     IN page' = [page EXCEPT
          !.pc = "idle",
          !.isProcessing = FALSE,
          !.response = NoResponse,
          !.form = IF ok THEN [filled EXCEPT !.receiptUrl = url] ELSE @,
          !.receiptUrl = IF ok THEN url ELSE @,
          !.activeTab = IF ok THEN "manual" ELSE @]
  /\ UNCHANGED <<hook, aux, receipt, now, db, pass, runs, requests>>

\* removeImage
removeImage ==
  /\ page.imagePreview
  /\ ~page.isProcessing
  /\ page' = [page EXCEPT !.imagePreview = FALSE]
  /\ UNCHANGED <<hook, aux, receipt, now, db, pass, runs, requests>>

\* Tabs.onValueChange
onValueChange(tab) ==
  /\ page.activeTab # tab
  /\ page' = [page EXCEPT !.activeTab = tab]
  /\ UNCHANGED <<hook, aux, receipt, now, db, pass, runs, requests>>

\* the user types into a registered input of the manual form
onChange(field) ==
  /\ page.activeTab = "manual"
  /\ page.form[field] # Typed[field]
  /\ page' = [page EXCEPT !.form[field] = Typed[field]]
  /\ UNCHANGED <<hook, aux, receipt, now, db, pass, runs, requests>>

\* onSubmit up to its fetch: the button is disabled while a submit runs
onSubmit ==
  /\ page.activeTab = "manual"
  /\ ~page.isSubmitting
  /\ page' = [page EXCEPT !.isSubmitting = TRUE]
  /\ UNCHANGED <<hook, aux, receipt, now, db, pass, runs, requests>>

\* onSubmit from the settled fetch on
onSubmitSettled ==
  /\ page.isSubmitting
  /\ page' = [page EXCEPT !.isSubmitting = FALSE]
  /\ UNCHANGED <<hook, aux, receipt, now, db, pass, runs, requests>>

\* the server's answer to the page's fetch
ReceiptAnswer ==
  \/ \E u \in Users : ReceiptPOST(u)
  \/ \E u \in Users : ReceiptRefused(u)
  \/ ReceiptFails

NextUpload ==
  \/ handleFileSelect
  \/ \E u \in Users, text \in UploadTexts : performOCR(u, text)
  \/ ReceiptAnswer
  \/ processReceiptSettled
  \/ removeImage
  \/ \E tab \in {"manual", "receipt"} : onValueChange(tab)
  \/ \E field \in DOMAIN Typed : onChange(field)
  \/ onSubmit
  \/ onSubmitSettled

\* a fetch does not stay pending: when nothing else settles it, it fails;
\* the continuation of a settled fetch is run
SpecUpload ==
  /\ InitUpload
  /\ [][NextUpload]_vars
  /\ WF_vars(ReceiptFails)
  /\ WF_vars(processReceiptSettled)

\* ------------------------------------------------------ useNotifications
MaxPending == 3     \* pending fetches and timers of the hook
MaxScheduled == 4   \* retry timers recorded in hook.scheduled, and retryCount

\* the messages of the errors fetchNotifications catches: a response that is
\* no JSON, the route's timeout and default answers with status 500
ErrorMessages ==
  {"HTTP 500", "Request timeout", "Failed to fetch notifications"}

MaxAutoRetries == 3

\* the test of the catch block on the message
isRetryable(errorMessage) ==
  \/ includes(errorMessage, "network")
  \/ includes(errorMessage, "timeout")
  \/ includes(errorMessage, "500")

\* Math.pow(2, retryCount) * 1000
backoff(retryCount) == (2 ^ retryCount) * 1000

\* s without its i-th element
Without(s, i) == SubSeq(s, 1, i - 1) \o SubSeq(s, i + 1, Len(s))

Pending == Len(hook.fetches) + Len(hook.timers)

\* the answers of GET /api/notifications the hook can be given
Feeds == { [notifications |-> <<>>, unreadCount |-> 0] }

\* fetchNotifications up to its fetch, by the closure that captured
\* retryCount
Fetching(h, retryCount) ==
  [h EXCEPT !.isLoading = TRUE, !.error = JsNull,
            !.fetches = Append(@, retryCount)]

\* the effect of lines 175-183 runs again whenever fetchNotifications is a
\* new function, which it is when retryCount has changed: it calls the new
\* closure
Rerendered(h, before) ==
  IF h.retryCount # before THEN Fetching(h, h.retryCount) ELSE h

\* the page is shown to a signed-in user: the first effect has run
InitRetry ==
  /\ now = 0
  /\ hasCategories = {"u1"}
  /\ subscription = [u \in {"u1"} |-> "FREE"]
  /\ prefs = [u \in {"u1"} |-> DefaultPreference]
  /\ budgets = <<>>
  /\ nextBudgetId = 1
  /\ expenses = <<>>
  /\ notifications = <<>>
  /\ pass = [p \in Passes |-> IdlePass]
  /\ runs = 0
  /\ requests = 0
  /\ receipt = NoReceipt
  /\ page = NoPage
  /\ hook = Fetching(NoHook, 0)
  /\ setup = NoSetup
  /\ inbox = NoInbox
  /\ cron = NoCron
  /\ creating = NoPosts

\* fetchNotifications from an ok response on: the lists are replaced and
\* retryCount is reset
FetchSucceeds(i, data) ==
  /\ i \in 1..Len(hook.fetches)
  /\ Pending < MaxPending \/ hook.retryCount = 0
  /\ LET settled == [hook EXCEPT
           !.fetches = Without(@, i),
           !.notifications = data.notifications,
           !.unreadCount = data.unreadCount,
           !.retryCount = 0,
           !.isLoading = FALSE,
           !.scheduled = <<>>]
     IN hook' = Rerendered(settled, hook.retryCount)
  /\ UNCHANGED <<page, aux, receipt, now, db, pass, runs, requests>>

\* fetchNotifications from a response that is not ok, or a rejected fetch,
\* on: the catch block, which tests the retryCount of its own closure
FetchFails(i, errorMessage) ==
  /\ i \in 1..Len(hook.fetches)
  /\ Len(hook.scheduled) < MaxScheduled
  /\ LET retryCount == hook.fetches[i]
         retries == retryCount < MaxAutoRetries /\ isRetryable(errorMessage)
         delay == backoff(retryCount)
     IN hook' = [hook EXCEPT
          !.fetches = Without(@, i),
          !.error = errorMessage,
          !.isLoading = FALSE,
          !.timers = IF retries
                     THEN Append(@, [delay |-> delay,
                                     retryCount |-> retryCount])
                     ELSE @,
          !.scheduled = IF retries THEN Append(@, delay)
                        ELSE IF isRetryable(errorMessage) THEN @
                        ELSE <<>>]
  /\ UNCHANGED <<page, aux, receipt, now, db, pass, runs, requests>>

\* the callback of a retry timer: setRetryCount(prev => prev + 1), then
\* fetchNotifications of the closure that set the timer; the new retryCount
\* makes the effect call the new closure as well
TimerFires(i) ==
  /\ i \in 1..Len(hook.timers)
  /\ Pending < MaxPending
  /\ hook.retryCount < MaxScheduled
  /\ LET timer == hook.timers[i]
         bumped == [hook EXCEPT !.timers = Without(@, i),
                                !.retryCount = @ + 1]
     IN hook' = Rerendered(Fetching(bumped, timer.retryCount),
                           hook.retryCount)
  /\ UNCHANGED <<page, aux, receipt, now, db, pass, runs, requests>>

\* the 30-second interval calls the current closure; it is longer than any
\* delay of a retry, so it finds no fetch or timer pending
Poll ==
  /\ Pending = 0
  /\ hook' = Fetching(hook, hook.retryCount)
  /\ UNCHANGED <<page, aux, receipt, now, db, pass, runs, requests>>

\* retry(): setRetryCount(0), then fetchNotifications of the current closure
retry ==
  /\ Pending + 1 < MaxPending
  /\ LET reset == [hook EXCEPT !.retryCount = 0]
     IN hook' = Rerendered(Fetching(reset, hook.retryCount), hook.retryCount)
  /\ UNCHANGED <<page, aux, receipt, now, db, pass, runs, requests>>

NextRetry ==
  \/ \E i \in 1..MaxPending, data \in Feeds : FetchSucceeds(i, data)
  \/ \E i \in 1..MaxPending, errorMessage \in ErrorMessages :
       FetchFails(i, errorMessage)
  \/ \E i \in 1..MaxPending : TimerFires(i)
  \/ Poll
  \/ retry

SpecRetry == InitRetry /\ [][NextRetry]_vars

\* ------------------------------------------------- user setup, call by call
\* ensureUserSetup with setupNewUser, and GET /api/setup-user, as the
\* sequence of their database calls: each call is one step, together with the
\* synchronous code that follows it up to the next call.  pc: idle, findUser,
\* count, createMany, findSubscription, createSubscription, findPreferences,
\* createPreferences, done.  status is the answer: 0 for ensureUserSetup's
\* null, 412 and 500 for a call that threw, 200 for the route.

\* a variant of the unique indexes that lets every insert through
NeverConflicts(rows) == FALSE

\* @@unique([userId, name]) of Category, @unique of Subscription.userId and
\* of NotificationPreference.userId: an insert throws when the key has rows
Conflicts(rows) == rows > 0

\* the tables before any row is written for u2: u1 has been set up by the
\* createUser event, for u2 the event wrote nothing, or the categories only
InitSetup ==
  /\ now = 0
  /\ hasCategories = {"u1"}
  /\ subscription = [u \in {"u1"} |-> "FREE"]
  /\ prefs = [u \in {"u1"} |-> DefaultPreference]
  /\ budgets = <<>>
  /\ nextBudgetId = 1
  /\ expenses = <<>>
  /\ notifications = <<>>
  /\ pass = [p \in Passes |-> IdlePass]
  /\ runs = 0
  /\ requests = 0
  /\ receipt = NoReceipt
  /\ page = NoPage
  /\ hook = NoHook
  /\ \E categorized \in BOOLEAN :
       setup = [NoSetup EXCEPT
         !.tables.categories["u2"] =
            [name \in DefaultCategoryNames |-> IF categorized THEN 1 ELSE 0]]
  /\ inbox = NoInbox
  /\ cron = NoCron
  /\ creating = NoPosts

CallOf(c) == setup.calls[c]
HasCategories(u) ==
  \E name \in DefaultCategoryNames : setup.tables.categories[u][name] > 0

\* the call ends with an answer
Ending(c, status) ==
  [setup EXCEPT !.calls[c].pc = "done", !.calls[c].status = status,
                !.served = @ \cup {setup.calls[c].userId}]

\* the answer of a call that threw: ensureUserSetup catches setupNewUser's
\* error with 412, the route with 500
Thrown(c) == Ending(c, IF CallOf(c).kind = "ensure" THEN 412 ELSE 500)

Going(c, pc) == [setup EXCEPT !.calls[c].pc = pc]

\* a request that calls ensureUserSetup, or GET /api/setup-user, arrives
StartSetup(c, kind, u) ==
  /\ CallOf(c).pc \in {"idle", "done"}
  /\ setup' = [setup EXCEPT
       !.calls[c] = [IdleCall EXCEPT !.pc = "findUser", !.kind = kind,
                                     !.userId = u]]
  /\ UNCHANGED <<client, inbox, cron, creating, receipt, now, db, pass, runs, requests>>

\* prisma.user.findUnique with the categories and the subscription included
findUser(c) ==
  /\ CallOf(c).pc = "findUser"
  /\ LET u == CallOf(c).userId
         noCategories == ~HasCategories(u)
         noSubscription == setup.tables.subscriptions[u] = 0
         read == [setup EXCEPT
                    !.calls[c].noCategories = noCategories,
                    !.calls[c].noSubscription = noSubscription,
                    !.calls[c].found = ~noCategories /\ ~noSubscription]
         next == IF CallOf(c).kind = "ensure" THEN "count"
                 ELSE IF noCategories THEN "createMany"
                 ELSE "createSubscription"
     IN setup' =
          IF ~noCategories /\ ~noSubscription
          THEN [read EXCEPT !.calls[c].pc = "done",
                            !.calls[c].status =
                               IF CallOf(c).kind = "ensure" THEN 0 ELSE 200,
                            !.served = @ \cup {u}]
          ELSE [read EXCEPT !.calls[c].pc = next]
  /\ UNCHANGED <<client, inbox, cron, creating, receipt, now, db, pass, runs, requests>>

\* setupNewUser: prisma.category.count
countCategories(c) ==
  /\ CallOf(c).pc = "count"
  /\ setup' = Going(c, IF HasCategories(CallOf(c).userId)
                       THEN "findSubscription" ELSE "createMany")
  /\ UNCHANGED <<client, inbox, cron, creating, receipt, now, db, pass, runs, requests>>

\* prisma.category.createMany of the default categories: one insert, which
\* stores every row or throws
createMany(c) ==
  /\ CallOf(c).pc = "createMany"
  /\ LET u == CallOf(c).userId
         throws == \E name \in DefaultCategoryNames :
                     Conflicts(setup.tables.categories[u][name])
         next == IF CallOf(c).kind = "ensure" THEN "findSubscription"
                 ELSE IF CallOf(c).noSubscription THEN "createSubscription"
                 ELSE "done"
         stored == [setup EXCEPT
                      !.tables.categories[u] =
                         [name \in DefaultCategoryNames |-> @[name] + 1],
                      !.calls[c].created = @ + 1,
                      !.calls[c].pc = next]
     IN setup' = IF throws THEN Thrown(c)
                 ELSE IF next = "done"
                 THEN [stored EXCEPT !.calls[c].status = 200,
                                     !.served = @ \cup {u}]
                 ELSE stored
  /\ UNCHANGED <<client, inbox, cron, creating, receipt, now, db, pass, runs, requests>>

\* setupNewUser: prisma.subscription.findUnique
findSubscription(c) ==
  /\ CallOf(c).pc = "findSubscription"
  /\ setup' = Going(c, IF setup.tables.subscriptions[CallOf(c).userId] > 0
                       THEN "findPreferences" ELSE "createSubscription")
  /\ UNCHANGED <<client, inbox, cron, creating, receipt, now, db, pass, runs, requests>>

\* prisma.subscription.create; the route reaches it only when the user it
\* read had no subscription, and has nothing left to do after it
createSubscription(c) ==
  /\ CallOf(c).pc = "createSubscription"
  /\ LET u == CallOf(c).userId
         route == CallOf(c).kind = "route"
         stored == [setup EXCEPT !.tables.subscriptions[u] = @ + 1,
                                 !.calls[c].created = @ + 1]
     IN setup' =
          IF Conflicts(setup.tables.subscriptions[u]) THEN Thrown(c)
          ELSE IF route
          THEN [stored EXCEPT !.calls[c].pc = "done",
                              !.calls[c].status = 200,
                              !.served = @ \cup {u}]
          ELSE [stored EXCEPT !.calls[c].pc = "findPreferences"]
  /\ UNCHANGED <<client, inbox, cron, creating, receipt, now, db, pass, runs, requests>>

\* setupNewUser: prisma.notificationPreference.findUnique
findPreferences(c) ==
  /\ CallOf(c).pc = "findPreferences"
  /\ setup' = IF setup.tables.preferences[CallOf(c).userId] > 0
              THEN Ending(c, 0) ELSE Going(c, "createPreferences")
  /\ UNCHANGED <<client, inbox, cron, creating, receipt, now, db, pass, runs, requests>>

\* setupNewUser: prisma.notificationPreference.create
createPreferences(c) ==
  /\ CallOf(c).pc = "createPreferences"
  /\ LET u == CallOf(c).userId
         stored == [setup EXCEPT !.tables.preferences[u] = @ + 1,
                                 !.calls[c].created = @ + 1,
                                 !.calls[c].pc = "done",
                                 !.calls[c].status = 0,
                                 !.served = @ \cup {u}]
     IN setup' = IF Conflicts(setup.tables.preferences[u]) THEN Thrown(c)
                 ELSE stored
  /\ UNCHANGED <<client, inbox, cron, creating, receipt, now, db, pass, runs, requests>>

NextSetup ==
  \E c \in SetupCalls :
    \/ \E kind \in {"ensure", "route"}, u \in Users : StartSetup(c, kind, u)
    \/ findUser(c)
    \/ countCategories(c)
    \/ createMany(c)
    \/ findSubscription(c)
    \/ createSubscription(c)
    \/ findPreferences(c)
    \/ createPreferences(c)

SpecSetup == InitSetup /\ [][NextSetup]_vars

\* ------------------------------------- PATCH and DELETE on the three routes
\* Both users are set up; each owns one budget, one expense and one unread
\* notification.
InitOwnership ==
  /\ now = 0
  /\ hasCategories = Users
  /\ subscription = [u \in Users |-> "FREE"]
  /\ prefs = [u \in Users |-> DefaultPreference]
  /\ budgets = [b \in {1, 2} |->
       [userId |-> IF b = 1 THEN "u1" ELSE "u2", categoryId |-> NoCategory,
        amount |-> 100, isActive |-> TRUE, startDate |-> 0,
        endDate |-> PeriodHours - 1]]
  /\ nextBudgetId = 3
  /\ expenses = <<[userId |-> "u1", categoryId |-> NoCategory,
                   amount |-> 90, date |-> 0],
                  [userId |-> "u2", categoryId |-> NoCategory,
                   amount |-> 90, date |-> 0]>>
  /\ notifications = <<>>
  /\ pass = [p \in Passes |-> IdlePass]
  /\ runs = 0
  /\ requests = 0
  /\ receipt = NoReceipt
  /\ page = NoPage
  /\ hook = NoHook
  /\ setup = NoSetup
  /\ inbox = [n \in {1, 2} |->
       [userId |-> IF n = 1 THEN "u1" ELSE "u2", isRead |-> FALSE]]
  /\ cron = NoCron
  /\ creating = NoPosts

\* bodies of PATCH /api/budgets and PATCH /api/expenses, without the id:
\* neither route validates them
OwnershipBodies == { [amount |-> 50] } \cup { [userId |-> b] : b \in Users }

\* PATCH /api/expenses: the owner's row (its id is its place in the table) is
\* updated with the body as sent; the body carries no date, so date is
\* undefined and stays
ExpensePATCH(u, id, updateData) ==
  /\ requests < MaxRequests
  /\ requests' = requests + 1
  /\ id \in 1..Len(expenses)
  /\ expenses[id].userId = u
  /\ expenses' = [expenses EXCEPT ![id] = Merge(expenses[id], updateData)]
  /\ UNCHANGED <<client, aux, receipt, now, hasCategories, subscription,
                 prefs, budgets, nextBudgetId, notifications, pass, runs>>

\* DELETE /api/expenses?id=: deleteMany on the id and the owner; 404 when no
\* row was deleted
ExpenseDELETE(u, id) ==
  /\ requests < MaxRequests
  /\ requests' = requests + 1
  /\ id \in 1..Len(expenses)
  /\ expenses[id].userId = u
  /\ expenses' = SubSeq(expenses, 1, id - 1)
                   \o SubSeq(expenses, id + 1, Len(expenses))
  /\ UNCHANGED <<client, aux, receipt, now, hasCategories, subscription,
                 prefs, budgets, nextBudgetId, notifications, pass, runs>>

\* the bodies of PATCH /api/notifications
ReadBodies ==
  { [markAllRead |-> TRUE, notificationIds |-> {}] }
    \cup { [markAllRead |-> FALSE, notificationIds |-> ids] :
             ids \in (SUBSET {1, 2}) \ {{}} }

\* PATCH /api/notifications: the listed rows that are the user's (none when
\* markAllRead is sent)
validIds(u, body) ==
  {n \in DOMAIN inbox : n \in body.notificationIds /\ inbox[n].userId = u}

\* PATCH /api/notifications: the table after updateMany
MarkedRead(u, body) ==
  LET updated ==
        IF body.markAllRead
        THEN {n \in DOMAIN inbox : inbox[n].userId = u /\ ~inbox[n].isRead}
        ELSE {n \in validIds(u, body) : inbox[n].userId = u}
  IN [n \in DOMAIN inbox |->
        IF n \in updated THEN [inbox[n] EXCEPT !.isRead = TRUE]
        ELSE inbox[n]]

\* PATCH /api/notifications: after ensureUserSetup, marks as read the user's
\* unread rows, or those of the listed rows that are the user's (404 when
\* none is)
NotificationPATCH(u, body) ==
  /\ requests < MaxRequests
  /\ requests' = requests + 1
  /\ ensureUserSetup(u)
  /\ body.markAllRead \/ validIds(u, body) # {}
  /\ inbox' = MarkedRead(u, body)
  /\ UNCHANGED <<client, setup, cron, creating, receipt, now, budgets,
                 nextBudgetId, expenses, notifications, pass, runs>>

\* DELETE /api/notifications?id=: findFirst finds the row among the user's
FoundForDelete(u, id) == id \in DOMAIN inbox /\ inbox[id].userId = u

\* DELETE /api/notifications: the table after deleteMany (id is NoId when
\* the request carries deleteAll=true) or delete
Deleted(u, id) ==
  LET deleted ==
        IF id = NoId THEN {n \in DOMAIN inbox : inbox[n].userId = u}
        ELSE {id}
  IN [n \in DOMAIN inbox \ deleted |-> inbox[n]]

\* DELETE /api/notifications: after ensureUserSetup, deleteAll removes the
\* user's rows; otherwise the row of the id is removed when findFirst finds
\* it among the user's (404 when it does not)
NotificationDELETE(u, id) ==
  /\ requests < MaxRequests
  /\ requests' = requests + 1
  /\ ensureUserSetup(u)
  /\ id # NoId => FoundForDelete(u, id)
  /\ inbox' = Deleted(u, id)
  /\ UNCHANGED <<client, setup, cron, creating, receipt, now, budgets,
                 nextBudgetId, expenses, notifications, pass, runs>>

\* the PATCH and DELETE requests of one session
Mutates(u) ==
  \/ \E id \in DOMAIN budgets, upd \in OwnershipBodies :
       BudgetPATCH(u, id, upd)
  \/ \E id \in DOMAIN budgets : BudgetDELETE(u, id)
  \/ \E id \in 1..Len(expenses), upd \in OwnershipBodies :
       ExpensePATCH(u, id, upd)
  \/ \E id \in 1..Len(expenses) : ExpenseDELETE(u, id)
  \/ \E body \in ReadBodies : NotificationPATCH(u, body)
  \/ \E id \in {NoId} \cup DOMAIN inbox : NotificationDELETE(u, id)

NextOwnership == \E u \in Users : Mutates(u)

SpecOwnership == InitOwnership /\ [][NextOwnership]_vars

\* -------------------------------------- POST /api/budgets, call by call
\* u1 (FREE) has three budgets for the current period: budget 1 over all
\* categories, budget 2 for food, which a PATCH has made inactive, and
\* budget 3 for food, created after that.  u2 (no subscription) has none.
InitLimit ==
  /\ now = 0
  /\ hasCategories = {"u1"}
  /\ subscription = [u \in {"u1"} |-> "FREE"]
  /\ prefs = [u \in {"u1"} |-> DefaultPreference]
  /\ budgets = [b \in {1, 2, 3} |->
       [userId |-> "u1",
        categoryId |-> IF b = 1 THEN NoCategory ELSE "food",
        amount |-> 100, isActive |-> b # 2, startDate |-> 0,
        endDate |-> PeriodHours - 1]]
  /\ nextBudgetId = 4
  /\ expenses = <<>>
  /\ notifications = <<>>
  /\ pass = [p \in Passes |-> IdlePass]
  /\ runs = 0
  /\ requests = 0
  /\ receipt = NoReceipt
  /\ page = NoPage
  /\ hook = NoHook
  /\ setup = NoSetup
  /\ inbox = NoInbox
  /\ cron = NoCron
  /\ creating = NoPosts

\* validatedData.startDate of the bodies sent: a date of the current period
\* and one of the next
StartDates == {0, PeriodHours}

\* lines 150-157, negated: the request goes on
UnderLimit(limit, activeBudgetsCount) ==
  ~(limit # -1 /\ activeBudgetsCount >= limit)

\* lines 128-157: the body is parsed, subscription.findUnique and
\* budget.count answer; 403 when the limit is reached
countBudgets(c, u, amount, categoryId, startDate) ==
  LET plan == IF u \in DOMAIN subscription THEN subscription[u] ELSE "FREE"
      limit == IF plan = "FREE" THEN FreeBudgetLimit ELSE -1
      activeBudgetsCount ==
        Cardinality({b \in DOMAIN budgets :
                       budgets[b].userId = u /\ budgets[b].isActive})
  IN /\ requests < MaxRequests
     /\ requests' = requests + 1
     /\ creating[c].pc = "idle"
     /\ amount > 0
     /\ creating' = [creating EXCEPT ![c] =
          IF UnderLimit(limit, activeBudgetsCount)
          THEN [pc |-> "findFirst", userId |-> u, amount |-> amount,
                categoryId |-> categoryId,
                period |-> getBudgetPeriod(startDate)]
          ELSE [pc |-> "idle"]]
     /\ UNCHANGED <<client, setup, inbox, cron, receipt, now, db, pass, runs>>

\* lines 166-183: budget.findFirst answers; 400 when the user has an active
\* budget of the category for the period
findExisting(c) ==
  LET call == creating[c]
      existingBudget ==
        \E b \in DOMAIN budgets :
          /\ budgets[b].userId = call.userId
          /\ budgets[b].categoryId = call.categoryId
          /\ budgets[b].isActive
          /\ budgets[b].startDate = call.period.start
          /\ budgets[b].endDate = call.period.end
  IN /\ call.pc = "findFirst"
     /\ creating' = [creating EXCEPT ![c] =
          IF existingBudget THEN [pc |-> "idle"]
          ELSE [call EXCEPT !.pc = "create"]]
     /\ UNCHANGED <<client, setup, inbox, cron, receipt, now, db, pass, runs,
                    requests>>

\* lines 185-207: budget.create stores the row; 201
createBudget(c) ==
  LET call == creating[c]
  IN /\ call.pc = "create"
     /\ budgets' =
          [b \in DOMAIN budgets \cup {nextBudgetId} |->
             IF b = nextBudgetId
             THEN [userId |-> call.userId, categoryId |-> call.categoryId,
                   amount |-> call.amount, isActive |-> TRUE,
                   startDate |-> call.period.start,
                   endDate |-> call.period.end]
             ELSE budgets[b]]
     /\ nextBudgetId' = nextBudgetId + 1
     /\ creating' = [creating EXCEPT ![c] = [pc |-> "idle"]]
     /\ UNCHANGED <<client, setup, inbox, cron, receipt, now, hasCategories,
                    subscription, prefs, expenses, notifications, pass, runs,
                    requests>>

\* PATCH bodies that set the flag the limit counts
ActiveBodies == { [isActive |-> TRUE], [isActive |-> FALSE] }

\* the POST requests of the budgets route, which may overlap
NextPosts ==
  \/ \E c \in PostCalls, u \in Users, a \in BudgetAmounts,
        k \in {NoCategory} \cup Categories, d \in StartDates :
       countBudgets(c, u, a, k, d)
  \/ \E c \in PostCalls : findExisting(c)
  \/ \E c \in PostCalls : createBudget(c)

\* POST and PATCH of the budgets route
NextLimit ==
  \/ NextPosts
  \/ \E u \in Users, id \in DOMAIN budgets, upd \in ActiveBodies :
       BudgetPATCH(u, id, upd)

SpecLimit == InitLimit /\ [][NextLimit]_vars

\* ------------------------------------------------------------- cron route
\* process.env.CRON_SECRET: <<>> when the variable is not set
Secrets == { <<>>, <<"s3cret">> }

\* request.headers.get('authorization'): <<>> when the header is absent
AuthHeaders ==
  { <<>>, <<"Bearer s3cret">>, <<"Bearer undefined">>, <<"Bearer wrong">>,
    <<"s3cret">> }

\* `Bearer ${CRON_SECRET}`: an undefined value is converted to "undefined"
Bearer(secret) ==
  "Bearer " \o (IF secret = <<>> THEN "undefined" ELSE secret[1])

\* the state of Init, with CRON_SECRET set or not
InitCron ==
  /\ now = 0
  /\ hasCategories = {"u1"}
  /\ subscription = [u \in {"u1"} |-> "FREE"]
  /\ prefs = [u \in {"u1"} |-> DefaultPreference]
  /\ budgets = [b \in {1} |->
       [userId |-> "u1", categoryId |-> NoCategory, amount |-> 100,
        isActive |-> TRUE, startDate |-> 0, endDate |-> PeriodHours - 1]]
  /\ nextBudgetId = 2
  /\ expenses = <<[userId |-> "u1", categoryId |-> NoCategory,
                  amount |-> 90, date |-> 0]>>
  /\ notifications = <<>>
  /\ pass = [p \in Passes |-> IdlePass]
  /\ runs = 0
  /\ requests = 0
  /\ receipt = NoReceipt
  /\ page = NoPage
  /\ hook = NoHook
  /\ setup = NoSetup
  /\ inbox = NoInbox
  /\ \E secret \in Secrets : cron = [NoCron EXCEPT !.secret = secret]
  /\ creating = NoPosts

\* GET of the cron route: 401 unless the header is present and equals the
\* template's value; otherwise runScheduledJobs is awaited, whose first job
\* is checkBudgetsAndNotify (the reminders and the weekly summaries, which
\* follow it, are left out).  status is 401 for a refused request and 0
\* otherwise; ran tells whether the request started the jobs.
CronGET(authHeader) ==
  IF authHeader = <<>> \/ authHeader[1] # Bearer(cron.secret)
  THEN /\ cron' = [cron EXCEPT !.header = authHeader, !.status = 401,
                               !.ran = FALSE]
       /\ UNCHANGED <<client, setup, inbox, creating, receipt, now, db,
                      pass, runs, requests>>
  ELSE /\ \E p \in Scheduled : BeginPass(p)
       /\ cron' = [cron EXCEPT !.header = authHeader, !.status = 0,
                               !.ran = TRUE]
       /\ UNCHANGED <<setup, inbox, creating>>

\* the cron route, the jobs it starts, the clock and the expenses route
NextCron ==
  \/ \E authHeader \in AuthHeaders : CronGET(authHeader)
  \/ \E p \in Scheduled : Spend(p) \/ Dedup(p) \/ Create(p)
  \/ \E d \in TickSteps : Tick(d)
  \/ \E u \in Users, a \in ExpenseAmounts : ExpensePOST(u, a, NoCategory, now)

SpecCron == InitCron /\ [][NextCron]_vars

\* --------------------------- useNotifications: markAsRead, deleteNotification
\* The session is u1's.  hook.calls holds the markAsRead and
\* deleteNotification calls whose request the route has handled and whose
\* response the hook has not yet processed: ok is response.ok, seen the
\* notifications state the call's closure captured.

\* u1 has two unread notifications and one that is read; the hook has
\* fetched them
InitUnread ==
  /\ now = 0
  /\ hasCategories = {"u1"}
  /\ subscription = [u \in {"u1"} |-> "FREE"]
  /\ prefs = [u \in {"u1"} |-> DefaultPreference]
  /\ budgets = <<>>
  /\ nextBudgetId = 1
  /\ expenses = <<>>
  /\ notifications = <<>>
  /\ pass = [p \in Passes |-> IdlePass]
  /\ runs = 0
  /\ requests = 0
  /\ receipt = NoReceipt
  /\ page = NoPage
  /\ hook = [NoHook EXCEPT
       !.notifications = <<[id |-> 1, isRead |-> FALSE],
                           [id |-> 2, isRead |-> FALSE],
                           [id |-> 3, isRead |-> TRUE]>>,
       !.unreadCount = 2]
  /\ setup = NoSetup
  /\ inbox = [n \in {1, 2, 3} |-> [userId |-> "u1", isRead |-> n = 3]]
  /\ cron = NoCron
  /\ creating = NoPosts

\* the ids the callers of the hook pass: those of the fetched list
CalledIds == {1, 2, 3}

\* prev => Math.max(0, prev - 1)
Lowered(prev) == IF prev - 1 > 0 THEN prev - 1 ELSE 0

\* markAsRead, lines 101-112: the PATCH is sent and the route handles it
markAsRead(notificationId) ==
  LET body == [markAllRead |-> FALSE, notificationIds |-> {notificationId}]
      ok == validIds("u1", body) # {}
  IN /\ requests < MaxRequests
     /\ requests' = requests + 1
     /\ ensureUserSetup("u1")
     /\ inbox' = IF ok THEN MarkedRead("u1", body) ELSE inbox
     /\ hook' = [hook EXCEPT !.calls = Append(@,
          [kind |-> "markAsRead", id |-> notificationId, ok |-> ok,
           seen |-> <<>>])]
     /\ UNCHANGED <<page, setup, cron, creating, receipt, now, budgets,
                    nextBudgetId, expenses, notifications, pass, runs>>

\* markAsRead, lines 110-121: the response arrives
markAsReadSettled(i) ==
  /\ i \in 1..Len(hook.calls)
  /\ hook.calls[i].kind = "markAsRead"
  /\ LET call == hook.calls[i]
         rest == [hook EXCEPT !.calls = Without(@, i)]
     IN hook' =
          IF ~call.ok THEN rest
          ELSE [rest EXCEPT
                  !.notifications =
                     [k \in 1..Len(@) |->
                        IF @[k].id = call.id
                        THEN [@[k] EXCEPT !.isRead = TRUE] ELSE @[k]],
                  !.unreadCount = Lowered(@)]
  /\ UNCHANGED <<page, aux, receipt, now, db, pass, runs, requests>>

\* deleteNotification, lines 146-151: the DELETE is sent and the route
\* handles it; the closure is the one of the latest render
deleteNotification(notificationId) ==
  LET ok == FoundForDelete("u1", notificationId)
  IN /\ requests < MaxRequests
     /\ requests' = requests + 1
     /\ ensureUserSetup("u1")
     /\ inbox' = IF ok THEN Deleted("u1", notificationId) ELSE inbox
     /\ hook' = [hook EXCEPT !.calls = Append(@,
          [kind |-> "deleteNotification", id |-> notificationId, ok |-> ok,
           seen |-> hook.notifications])]
     /\ UNCHANGED <<page, setup, cron, creating, receipt, now, budgets,
                    nextBudgetId, expenses, notifications, pass, runs>>

\* deleteNotification, lines 153-166: the response arrives; wasUnread is
\* read from the notifications the closure captured
deleteNotificationSettled(i) ==
  /\ i \in 1..Len(hook.calls)
  /\ hook.calls[i].kind = "deleteNotification"
  /\ LET call == hook.calls[i]
         rest == [hook EXCEPT !.calls = Without(@, i)]
         isRead == \E k \in 1..Len(call.seen) :
                     call.seen[k].id = call.id /\ call.seen[k].isRead
         wasUnread == ~isRead
         HasOtherId(n) == n.id # call.id
     IN hook' =
          IF ~call.ok THEN rest
          ELSE [rest EXCEPT
                  !.notifications = SelectSeq(@, HasOtherId),
                  !.unreadCount = IF wasUnread THEN Lowered(@) ELSE @]
  /\ UNCHANGED <<page, aux, receipt, now, db, pass, runs, requests>>

NextUnread ==
  \/ \E id \in CalledIds : markAsRead(id)
  \/ \E i \in 1..Len(hook.calls) : markAsReadSettled(i)
  \/ \E id \in CalledIds : deleteNotification(id)
  \/ \E i \in 1..Len(hook.calls) : deleteNotificationSettled(i)

SpecUnread == InitUnread /\ [][NextUnread]_vars

\* ============================================================ properties
\* the entries of the loop's record, over all passes
Evaluated == UNION { {pass[p].evals[k] : k \in 1..Len(pass[p].evals)} : p \in Passes }

\* an entry of a budget the loop decided a tier for: positive amount, alerts
\* enabled, threshold in 1..100
Decided(e) ==
  /\ e.amount > 0
  /\ e.pref # <<>>
  /\ e.pref[1].budgetAlerts
  /\ e.pref[1].budgetThreshold \in MinThreshold..MaxThreshold

Ended(p) == pass[p].pc \in {"returned", "thrown"}

\* the notification pass p created for the alert of entry e
CreatedFor(p, e) ==
  \E n \in (e.checkedAt + 1)..Len(notifications) :
    /\ notifications[n].origin = p
    /\ notifications[n].relatedId = e.budgetId
    /\ notifications[n].type =
         (IF e.tier = "EXCEEDED" THEN "BUDGET_EXCEEDED" ELSE "BUDGET_WARNING")

\* C3: when a pass has ended and it found a budget at or over 100 % with a
\* BUDGET_WARNING younger than 24 hours and no BUDGET_EXCEEDED within the
\* last 24 hours, and nothing failed for that budget itself, the pass has
\* created the BUDGET_EXCEEDED notification.
C3_EscalationCreated ==
  \A p \in Passes :
    Ended(p) =>
      \A k \in 1..Len(pass[p].evals) :
        LET e == pass[p].evals[k]
        IN ( /\ e.tier = "EXCEEDED"
             /\ e.recentWarning
             /\ ~e.suppressed
             /\ \A x \in 1..Len(pass[p].error) :
                  pass[p].error[x].budgetId # e.budgetId )
           => CreatedFor(p, e)

\* C4: when a spending or dedup lookup has failed for one budget, every
\* other budget the pass loaded has still been evaluated and every alert
\* found for them has been persisted.
C4_LookupFailureIsolated ==
  \A p \in Passes :
    ( /\ Ended(p)
      /\ pass[p].error # <<>>
      /\ pass[p].error[1].stage \in {"spending", "dedup"} )
    => \A b \in 1..Len(pass[p].activeBudgets) :
         pass[p].activeBudgets[b].id # pass[p].error[1].budgetId =>
           \E k \in 1..Len(pass[p].evals) :
             LET e == pass[p].evals[k]
             IN /\ e.budgetId = pass[p].activeBudgets[b].id
                /\ e.emitted => CreatedFor(p, e)

\* C5: when persisting one alert's notification has failed, every other
\* alert of the pass has been persisted.
C5_PersistFailureIsolated ==
  \A p \in Passes :
    ( /\ Ended(p)
      /\ pass[p].error # <<>>
      /\ pass[p].error[1].stage = "create" )
    => \A a \in 1..Len(pass[p].alerts) :
         a # pass[p].j + 1 => a <= pass[p].j

\* the pair of rows k1 < k2 is a duplicate: both created by a pass, same
\* kind, same budget, at most 24 hours apart
Duplicate(k1, k2) ==
  /\ k1 < k2
  /\ notifications[k1].origin \in Passes
  /\ notifications[k2].origin \in Passes
  /\ notifications[k1].type = notifications[k2].type
  /\ notifications[k1].relatedId = notifications[k2].relatedId
  /\ notifications[k2].createdAt - notifications[k1].createdAt
       <= DedupWindowHours

\* C6: the dedup check and the creation are not one atomic step: two
\* notifications of the same kind for the same budget within 24 hours exist
\* only when the dedup check of the later one was answered before the
\* earlier one was created, which two overlapping passes do (C6_Witness).
C6_DuplicateOnlyByOverlap ==
  \A k1 \in 1..Len(notifications), k2 \in 1..Len(notifications) :
    Duplicate(k1, k2) => notifications[k2].checkedAt < k1

\* two passes both passed the dedup check before either created, and both
\* created a notification of the same kind for the same budget
C6_Witness ==
  \E k1 \in 1..Len(notifications), k2 \in 1..Len(notifications) :
    /\ Duplicate(k1, k2)
    /\ notifications[k1].origin # notifications[k2].origin
    /\ notifications[k1].checkedAt < k1
    /\ notifications[k2].checkedAt < k1
    /\ \A p \in Passes : pass[p].pc = "returned"

\* C7: a budget whose owner has no stored preference is treated as
\* budgetAlerts = true with threshold 80: when its percentage is at or over
\* 80 and no notification for it is stored, an alert is emitted as it is for
\* an owner who stored those values.
C7_DefaultsWhenAbsent ==
  \A p \in Passes :
    \A k \in 1..Len(pass[p].evals) :
      LET e == pass[p].evals[k]
      IN ( /\ e.pref = <<>>
           /\ e.amount > 0
           /\ 100 * e.spent >= DefaultThreshold * e.amount
           /\ \A n \in 1..e.checkedAt :
                notifications[n].relatedId # e.budgetId )
         => e.emitted

C9_NoAlertForInvalidBudget ==
  \A n \in 1..Len(notifications) :
    notifications[n].origin \in Passes => notifications[n].budget > 0

\* C10: every stored notification of kind BUDGET_WARNING or BUDGET_EXCEEDED
\* was stored by a pass for a budget it evaluated and carries that budget's
\* id as relatedId.
C10_RelatedIdIsBudget ==
  \A n \in 1..Len(notifications) :
    notifications[n].type \in BudgetTypes =>
      /\ notifications[n].origin \in Passes
      /\ notifications[n].relatedType = "budget"
      /\ notifications[n].relatedId \in DOMAIN budgets

\* the rows pass p has stored since it started
PersistedBy(p) ==
  {n \in 1..Len(notifications) :
     /\ notifications[n].origin = p
     /\ Cardinality({m \in 1..n : notifications[m].origin = p})
          > pass[p].base}

\* C11: the list a pass returns is exactly what the pass emitted: one alert
\* per notification the pass stored, each stored notification being the one
\* of its alert, and no alert for a budget that was deduplicated, below its
\* threshold or skipped.
C11_ReturnedListIsEmitted ==
  \A p \in Passes :
    pass[p].pc = "returned" =>
      /\ Cardinality(PersistedBy(p)) = Len(pass[p].alerts)
      /\ \A a \in 1..Len(pass[p].alerts) :
           \E n \in PersistedBy(p) :
             /\ notifications[n].relatedId = pass[p].alerts[a].budgetId
             /\ notifications[n].type =
                  (IF pass[p].alerts[a].type = "EXCEEDED"
                   THEN "BUDGET_EXCEEDED" ELSE "BUDGET_WARNING")
      /\ \A k \in 1..Len(pass[p].evals) :
           LET e == pass[p].evals[k]
               listed == \E a \in 1..Len(pass[p].alerts) :
                           pass[p].alerts[a].budgetId = e.budgetId
           IN /\ listed <=> e.emitted
              /\ (e.suppressed \/ e.tier \in {"NONE", "SKIPPED"}) => ~listed

\* a pass returned a list with an alert after it also handled a budget that
\* got none
C11_Witness ==
  \E p \in Passes :
    /\ pass[p].pc = "returned"
    /\ pass[p].alerts # <<>>
    /\ \E k \in 1..Len(pass[p].evals) : ~pass[p].evals[k].emitted

\* C12: every stored budget has amount > 0 and startDate <= endDate, after
\* any sequence of budget POST, PATCH and DELETE requests.
C12_StoredBudgetsValid ==
  \A b \in DOMAIN budgets :
    /\ budgets[b].amount > 0
    /\ budgets[b].startDate <= budgets[b].endDate

\* the final total of the sample receipt, 880.00, in hundredths
FinalTotal == 88000

\* C13: for a receipt text that holds both a subtotal line and a final
\* total line with different values, the extracted amount is the final
\* total, whichever extractor read the text.
C13_TotalBeforeSubtotal ==
  (Extracted /\ includes(receipt.text, SubtotalLine)
             /\ includes(receipt.text, TotalLine))
    => receipt.extractedData.amount = <<FinalTotal>>

\* what each pattern of a list gives when it is the only one tried
Outcomes(Extract(_), patterns) ==
  [k \in 1..Len(patterns) |-> Extract(<<patterns[k]>>)]

\* the patterns of a list that match the text
Matching(cleanText, patterns) ==
  {k \in 1..Len(patterns) : match(cleanText, patterns[k]) # <<>>}

Least(ks) == CHOOSE k \in ks : \A j \in ks : k <= j

\* the outcome of the first pattern that matches, <<>> when none does
OfFirstMatching(cleanText, patterns, outcomes) ==
  LET ks == Matching(cleanText, patterns)
  IN IF ks = {} THEN <<>> ELSE outcomes[Least(ks)]

\* the outcome of the first pattern that gives a value, <<>> when none does
OfFirstAccepted(outcomes) ==
  LET ks == {k \in DOMAIN outcomes : outcomes[k] # <<>>}
  IN IF ks = {} THEN <<>> ELSE outcomes[Least(ks)]

\* null counts as no value
WithoutNull(outcomes) ==
  [k \in DOMAIN outcomes |->
     IF outcomes[k] = <<JsNull>> THEN <<>> ELSE outcomes[k]]

\* the per-pattern outcomes of the four fields for the extractor that ran
AmountOutcomes ==
  LET cleanText == cleanTextOf(receipt.text)
  IN Outcomes(LAMBDA ps : extractAmount(cleanText, ps),
              IF receipt.by = "service" THEN amountPatterns
              ELSE routeAmountPatterns)

DateOutcomes ==
  LET cleanText == cleanTextOf(receipt.text)
  IN IF receipt.by = "service"
     THEN Outcomes(LAMBDA ps : extractDate(cleanText, ps,
                                           receipt.timezoneOffset),
                   datePatterns)
     ELSE Outcomes(LAMBDA ps : routeExtractDate(cleanText, ps,
                                                receipt.timezoneOffset),
                   routeDatePatterns)

MerchantOutcomes ==
  LET cleanText == cleanTextOf(receipt.text)
  IN Outcomes(LAMBDA ps : merchantFromPatterns(cleanText, ps),
              IF receipt.by = "service" THEN merchantPatterns
              ELSE routeMerchantPatterns)

PaymentOutcomes ==
  LET cleanText == cleanTextOf(receipt.text)
  IN IF receipt.by = "service"
     THEN Outcomes(LAMBDA ps : extractPaymentMethod(cleanText, ps),
                   paymentPatterns)
     ELSE Outcomes(LAMBDA ps : routeExtractPaymentMethod(cleanText, ps, <<>>),
                   routePaymentPatterns)

\* the service looks for a known merchant before it tries the patterns
KnownFirst(fromPatterns) ==
  LET known == knownMerchant(cleanTextOf(receipt.text), commonMerchants)
  IN IF receipt.by = "service" /\ known # <<>> THEN known ELSE fromPatterns

\* C14 as stated: per field the first pattern that matches the text wins,
\* the outcome is taken from that pattern's match and no later pattern is
\* consulted.
C14_FirstMatchWins ==
  Extracted =>
    LET cleanText == cleanTextOf(receipt.text)
        service == receipt.by = "service"
        data == receipt.extractedData
    IN /\ data.amount =
            OfFirstMatching(cleanText,
              IF service THEN amountPatterns ELSE routeAmountPatterns,
              AmountOutcomes)
       /\ data.date =
            OfFirstMatching(cleanText,
              IF service THEN datePatterns ELSE routeDatePatterns,
              DateOutcomes)
       /\ data.merchant =
            KnownFirst(OfFirstMatching(cleanText,
              IF service THEN merchantPatterns ELSE routeMerchantPatterns,
              MerchantOutcomes))
       /\ data.paymentMethod =
            OfFirstMatching(cleanText,
              IF service THEN paymentPatterns ELSE routePaymentPatterns,
              PaymentOutcomes)

\* C14, amended: per field the patterns are tried in their listed order and
\* the first pattern whose match gives an accepted value wins; a pattern
\* that matches with a rejected value is passed over.  The field has no
\* value (it is absent, or null for the route's payment method) when no
\* pattern gives one.  Each field is a function of the text and of its own
\* patterns, so no field's outcome changes another's.
C14_FirstAcceptedWins ==
  Extracted =>
    LET data == receipt.extractedData
        payment == OfFirstAccepted(WithoutNull(PaymentOutcomes))
    IN /\ data.amount = OfFirstAccepted(AmountOutcomes)
       /\ data.date = OfFirstAccepted(DateOutcomes)
       /\ data.merchant = KnownFirst(OfFirstAccepted(MerchantOutcomes))
       /\ IF payment # <<>> THEN data.paymentMethod = payment
          ELSE data.paymentMethod \in {<<>>, <<JsNull>>}

\* a pattern of the amount list matched with a rejected amount and a later
\* pattern set the field
C14_Witness ==
  /\ Extracted
  /\ \E k \in Matching(cleanTextOf(receipt.text),
                       IF receipt.by = "service" THEN amountPatterns
                       ELSE routeAmountPatterns) :
       /\ AmountOutcomes[k] = <<>>
       /\ \E j \in DOMAIN AmountOutcomes :
            j > k /\ AmountOutcomes[j] = receipt.extractedData.amount
  /\ receipt.extractedData.amount # <<>>

\* the text holds the written date and no other date line
OnlyDate(written) ==
  /\ includes(receipt.text, written)
  /\ \A line \in DateLines :
       includes(receipt.text, line) => includes(line, written)

\* C15: a receipt date written D/M/YY comes out as the ISO date of the same
\* day and month, in year 2000+YY when YY < 50 and 1900+YY otherwise, in
\* whatever time zone the server runs.
C15_ShortYearDate ==
  Extracted =>
    \A d \in ShortYearDates :
      OnlyDate(d.written) => receipt.extractedData.date = <<d.iso>>

\* C16: a date-shaped text that names no day of the calendar leaves the
\* date field absent.
C16_InvalidDateOmitted ==
  Extracted =>
    \A written \in InvalidDates :
      OnlyDate(written) => receipt.extractedData.date = <<>>

\* the names of the known-merchant list
KnownMerchants == {commonMerchants[k] : k \in DOMAIN commonMerchants}

\* the text holds a known merchant name, case ignored
HoldsKnownMerchant ==
  \E name \in KnownMerchants :
    includes(toLowerCase(cleanTextOf(receipt.text)), toLowerCase(name))

\* C17: when the text holds a name of the known-merchant list, the merchant
\* field is a name of that list which the text holds, whatever the merchant
\* patterns would capture.
C17_KnownMerchantFirst ==
  (Extracted /\ HoldsKnownMerchant) =>
    \E name \in KnownMerchants :
      /\ receipt.extractedData.merchant = <<name>>
      /\ includes(toLowerCase(cleanTextOf(receipt.text)), toLowerCase(name))

\* C18: the payment method is absent or one of the six methods.
C18_PaymentMethodOfEnumeration ==
  Extracted =>
    \/ receipt.extractedData.paymentMethod = <<>>
    \/ \E method \in PaymentMethods :
         receipt.extractedData.paymentMethod = <<method>>

\* C19: the description is present exactly when the merchant is; it reads
\* 'Purchase at {merchant}', followed by ' for ₹{amount}' exactly when the
\* amount is present.
C19_Description ==
  Extracted =>
    LET data == receipt.extractedData
    IN IF data.merchant = <<>> THEN data.description = <<>>
       ELSE data.description =
              <<"Purchase at " \o data.merchant[1] \o
                (IF data.amount = <<>> THEN ""
                 ELSE " for ₹" \o numberText(data.amount[1]))>>

\* the words the amount, date, merchant and payment patterns look for
ReceiptKeywords ==
  { "₹", "rs", "inr", "total", "amount", "payable", "date", "from",
    "merchant", "store", "billed", "payment", "paid", "mode", "cash", "card",
    "credit", "debit", "upi", "paytm", "phonepe", "gpay", "google", "wallet",
    "banking", "neft", "imps", "rtgs" }

\* unrelated prose: no digit, so no amount and no date-shaped part, no
\* known merchant name and none of the words the patterns look for
Prose ==
  /\ \A i \in 1..Len(receipt.text) :
       SubSeq(receipt.text, i, i) \notin Digit
  /\ ~HoldsKnownMerchant
  /\ \A word \in ReceiptKeywords :
       ~includes(toLowerCase(receipt.text), word)

\* C20: for unrelated prose every field of the result is absent.
C20_ProseGivesNothing ==
  (Extracted /\ Prose) => receipt.extractedData = NoData

\* ------------------------------------------------------------------ C21
\* the fields of the form that a receipt can fill
ReceiptFields == {"amount", "merchant", "date", "description", "paymentMethod"}

\* the value the route recovered for a field, as the form shows it: none
\* when the field is missing from the answer or null
RecoveredValue(response, field) ==
  LET data == response.extractedData
  IN IF response.status # 200 \/ data[field] = <<>> THEN <<>>
     ELSE IF field = "amount" THEN <<numberText(data.amount[1])>>
     ELSE IF data[field][1] = JsNull THEN <<>>
     ELSE data[field]

\* a step that ends an upload attempt pre-fills the recovered fields, keeps
\* every other field the user can type into, and clears isProcessing
UploadEnds ==
  (page.pc = "answered" /\ page'.pc = "idle") =>
     /\ ~page'.isProcessing
     /\ \A field \in ReceiptFields :
          LET value == RecoveredValue(page.response, field)
          IN page'.form[field] =
               IF value = <<>> THEN page.form[field] ELSE value[1]
     /\ \A field \in {"categoryId", "notes"} :
          page'.form[field] = page.form[field]

\* whatever the upload is doing, the manual form can be reached, and it can
\* be submitted unless a submit is already running
EntryOpen ==
  /\ page.activeTab = "manual" \/ ENABLED onValueChange("manual")
  /\ (page.activeTab = "manual" /\ ~page.isSubmitting) => ENABLED onSubmit

\* C21: a receipt upload never blocks expense entry: every upload attempt,
\* whether the route answers full, partial or no data, refuses or fails,
\* ends with isProcessing = FALSE; the manual form stays reachable and
\* submittable throughout; the end of the attempt pre-fills exactly the
\* recovered fields and leaves the other fields as they were.
C21_UploadNeverBlocks ==
  /\ [][UploadEnds]_vars
  /\ []EntryOpen
  /\ (page.isProcessing ~> ~page.isProcessing)

\* a receipt with every field was processed after the user had typed a note:
\* the fields are pre-filled and the note is still there
C21_Witness ==
  /\ page.pc = "idle" /\ ~page.isProcessing
  /\ receipt.by = "route"
  /\ page.form.merchant = "Acme Traders"
  /\ page.form.amount = "880"
  /\ page.form.notes = "lunch"

\* ------------------------------------------------------------------ C22
\* the delays the comment of line 88 lists
BackoffDelays == <<1000, 2000, 4000>>

IsPrefix(s, t) == Len(s) <= Len(t) /\ s = SubSeq(t, 1, Len(s))

\* C22: in a run of fetches that fail with a retryable error at most three
\* automatic retries are scheduled, with delays of 1s, 2s and 4s in that
\* order.
C22_RetryBounded == IsPrefix(hook.scheduled, BackoffDelays)

\* ------------------------------------------------------------------ C23
\* no setup call is between two of its database calls
Quiet == \A c \in SetupCalls : CallOf(c).pc \in {"idle", "done"}

RecordsOf(b) ==
  [budgets |-> {<<id, budgets[id]>> : id \in
                  {x \in DOMAIN budgets : budgets[x].userId = b}},
   expenses |-> SelectSeq(expenses, LAMBDA e : e.userId = b),
   inbox |-> {<<n, inbox[n]>> : n \in
                {x \in DOMAIN inbox : inbox[x].userId = b}}]

C25_OwnershipPreserved ==
  [][\A a \in Users :
       Mutates(a) =>
         /\ \A b \in Users \ {a} : RecordsOf(b)' = RecordsOf(b)
         /\ \A id \in DOMAIN budgets \cap DOMAIN budgets' :
              budgets'[id].userId = budgets[id].userId]_vars


\* ---------------------------------------------------------------------------
\* C26: whether a pass emits an alert for a budget does not depend on what
\* users other than the budget's owner did: the dedup lookup answers as it
\* would on the notification table without the rows of the other users,
\* those stored through POST /api/notifications with the budget's id as
\* relatedId included.
RowsOf(u) == SelectSeq(notifications, LAMBDA n : n.userId = u)

C26_AlertsIndependent ==
  [][\A p \in Passes :
       Dedup(p) =>
         LET budget == pass[p].activeBudgets[pass[p].i]
             decided == pass'[p].evals[Len(pass'[p].evals)]
         IN decided.suppressed =
              RecentIn(RowsOf(budget.userId), now, budget.id,
                       NotificationTypeOf(decided.tier))]_vars


\* ---------------------------------------------------------------------------
\* C27: a user on the FREE plan, or without a subscription row, has at most
\* three active budgets, whatever POST and PATCH requests of the budgets
\* route the user made, one after the other or overlapping.
ActiveBudgetsOf(u) ==
  {b \in DOMAIN budgets : budgets[b].userId = u /\ budgets[b].isActive}

C27_FreeBudgetLimit ==
  \A u \in Users :
    (u \in DOMAIN subscription => subscription[u] = "FREE")
      => Cardinality(ActiveBudgetsOf(u)) <= FreeBudgetLimit


\* ---------------------------------------------------------------------------
\* C28: the cron route starts the scheduled jobs only for a request whose
\* Authorization header is 'Bearer ' followed by the configured CRON_SECRET;
\* when no CRON_SECRET is configured no request starts them, so no pass runs
\* and no notification is stored.
C28_CronGuarded ==
  /\ cron.ran =>
       /\ cron.secret # <<>>
       /\ cron.header = <<"Bearer " \o cron.secret[1]>>
  /\ cron.secret = <<>> =>
       /\ notifications = <<>>
       /\ \A p \in Passes : pass[p].pc = "idle"


\* ---------------------------------------------------------------------------
\* C29: in useNotifications unreadCount is never negative and never smaller
\* than the number of unread notifications of the local list, and a
\* markAsRead or deleteNotification response for a notification that the
\* local list holds as read, or no longer holds, leaves unreadCount as it
\* was.
UnreadInList ==
  Cardinality({k \in 1..Len(hook.notifications) :
                 ~hook.notifications[k].isRead})

CountedUnread(id) ==
  \E k \in 1..Len(hook.notifications) :
    hook.notifications[k].id = id /\ ~hook.notifications[k].isRead

C29_LoweredOnce ==
  /\ [](hook.unreadCount >= 0 /\ hook.unreadCount >= UnreadInList)
  /\ [][\A i \in 1..Len(hook.calls) :
          (markAsReadSettled(i) \/ deleteNotificationSettled(i))
            /\ ~CountedUnread(hook.calls[i].id)
          => hook'.unreadCount = hook.unreadCount]_vars


\* ---------------------------------------------------------------------------
\* C30: every plan gate treats a user without a subscription row as a FREE
\* user.  The budgets and expenses routes default the plan to FREE; for the
\* receipts route this means that such a user's upload is never answered
\* with extracted data, as a FREE user's is not.
TreatedAsFree(u) ==
  u \notin DOMAIN subscription \/ subscription[u] = "FREE"

C30_GatesAgree ==
  \A u \in Users :
    TreatedAsFree(u) /\ page.user = u =>
      /\ page.response.status # 200
      /\ receipt.pc = "extracted" => receipt.by # "route"

====
